---- MODULE Spec2Model ----
(***************************************************************************)
(* BookLocalizer: the context-windowed translation pipeline                *)
(* (src/app/translator.py) driven by the chapter task of the UI            *)
(* (src/app/ui.py).                                                        *)
(*                                                                         *)
(* A string is a sequence of characters; a character is a one-letter TLA+  *)
(* string.  The six protocol markers are literal, indivisible tokens of    *)
(* that sequence (none of them is a substring of another one).             *)
(***************************************************************************)
EXTENDS Integers, Sequences, FiniteSets, TLC

\* ------------------------------------------------------------------ bounds
MaxN == 3
MaxWindow == 2
MaxOverlap == 1
MaxEntries == 2
MaxOthers == 1
MaxLines == 2

\* ------------------------------------------------------- protocol markers
START_MARK == "<<<START>>>"
END_MARK == "<<<END>>>"
TITLE_START == "<<<TITLE_START>>>"
TITLE_END == "<<<TITLE_END>>>"
GLOSSARY_START == "<<<GLOSSARY_START>>>"
GLOSSARY_END == "<<<GLOSSARY_END>>>"

\* ------------------------------------------------------ character classes
DigitChars == <<"0", "1", "2", "3", "4", "5", "6", "7", "8", "9">>

\* str.isdigit() on one character
IsDigit(c) == \E d \in 1..10 : DigitChars[d] = c

\* whitespace removed by str.strip() and matched by \s
IsSpace(c) == c \in {" ", "\n"}

\* str.isupper() on one character: the upper-case letters of the alphabet
IsUpperChar(c) == c \in {"L", "T", "Z", "K", "X", "P", "D", "F"}

\* "u82f1" stands for one non-ASCII character (a CJK ideograph)
IsAsciiChar(c) == c # "u82f1"

\* str.lower() on one character
LowerChar(c) ==
  CASE c = "L" -> "l"
    [] c = "T" -> "t"
    [] c = "Z" -> "z"
    [] c = "K" -> "k"
    [] c = "X" -> "x"
    [] c = "P" -> "p"
    [] c = "D" -> "d"
    [] c = "F" -> "f"
    [] OTHER -> c

\* ---------------------------------------------------------- str builtins
\* str.lower()
Lower(s) == [i \in 1..Len(s) |-> LowerChar(s[i])]

\* str.isascii()
IsAscii(s) == \A i \in 1..Len(s) : IsAsciiChar(s[i])

\* str.strip()
RECURSIVE LStrip(_)
LStrip(s) == IF s # <<>> /\ IsSpace(Head(s)) THEN LStrip(Tail(s)) ELSE s

RECURSIVE RStrip(_)
RStrip(s) ==
  IF s # <<>> /\ IsSpace(s[Len(s)]) THEN RStrip(SubSeq(s, 1, Len(s) - 1)) ELSE s

Strip(s) == RStrip(LStrip(s))

\* pat occurs in s at position i
OccursAt(pat, s, i) ==
  /\ i >= 1
  /\ i + Len(pat) - 1 <= Len(s)
  /\ SubSeq(s, i, i + Len(pat) - 1) = pat

\* str.find(pat, from): first position >= from where pat occurs, 0 if none
Find(pat, s, from) ==
  LET hits == {i \in from..Len(s) : OccursAt(pat, s, i)}
  IN IF hits = {} THEN 0 ELSE CHOOSE i \in hits : \A j \in hits : i <= j

\* str.replace(src, dst): every non-overlapping occurrence, left to right
RECURSIVE Replace(_, _, _)
Replace(s, src, dst) ==
  IF src = <<>> \/ s = <<>> THEN s
  ELSE IF OccursAt(src, s, 1)
       THEN dst \o Replace(SubSeq(s, Len(src) + 1, Len(s)), src, dst)
       ELSE <<Head(s)>> \o Replace(Tail(s), src, dst)

\* str(n) for a natural number
RECURSIVE Digits(_)
Digits(n) ==
  IF n < 10 THEN <<DigitChars[n + 1]>>
  ELSE Digits(n \div 10) \o <<DigitChars[(n % 10) + 1]>>

\* str.splitlines()
RECURSIVE SplitLines(_)
SplitLines(s) ==
  IF s = <<>> THEN <<>>
  ELSE LET nl == Find(<<"\n">>, s, 1)
       IN IF nl = 0 THEN <<s>>
          ELSE <<SubSeq(s, 1, nl - 1)>> \o SplitLines(SubSeq(s, nl + 1, Len(s)))

\* "sep".join(parts)
RECURSIVE Join(_, _)
Join(sep, parts) ==
  IF parts = <<>> THEN <<>>
  ELSE IF Len(parts) = 1 THEN parts[1]
  ELSE parts[1] \o sep \o Join(sep, Tail(parts))

\* -------------------------------------------------- insertion-ordered dict
\* A dict is a sequence of <<key, value>> pairs with distinct keys, in
\* insertion order.
Keys(d) == {d[i][1] : i \in 1..Len(d)}

HasKey(d, k) == k \in Keys(d)

Get(d, k) == (CHOOSE i \in 1..Len(d) : d[i][1] = k)

Value(d, k) == d[Get(d, k)][2]

\* d[k] = v
SetItem(d, k, v) ==
  IF HasKey(d, k) THEN [d EXCEPT ![Get(d, k)] = <<k, v>>]
  ELSE Append(d, <<k, v>>)

\* d.update(u)
RECURSIVE Update(_, _)
Update(d, u) ==
  IF u = <<>> THEN d
  ELSE Update(SetItem(d, u[1][1], u[1][2]), Tail(u))

\* ------------------------------------------------- translator.py: parsing
\* prune_marked: the text between the first start marker and the first end
\* marker after it (re.search of start(.*?)end with re.S), stripped; the
\* whole text, stripped, when there is no such pair.
Between(text, start, end) ==
  LET i == Find(<<start>>, text, 1)
      j == IF i = 0 THEN 0 ELSE Find(<<end>>, text, i + 1)
  IN IF j = 0 THEN [found |-> FALSE, body |-> <<>>]
     ELSE [found |-> TRUE, body |-> SubSeq(text, i + 1, j - 1)]

\* without the fall-back: nothing when the pair of markers is not there
prune_marked_NoFallback(text, start, end) ==
  LET m == Between(text, start, end)
  IN IF m.found THEN Strip(m.body) ELSE <<>>

prune_marked(text, start, end) ==
  LET m == Between(text, start, end)
  IN IF m.found THEN Strip(m.body) ELSE Strip(text)

\* apply_glossary: one str.replace per entry, in insertion order
RECURSIVE ReplaceAll(_, _)
ReplaceAll(text, items) ==
  IF items = <<>> THEN text
  ELSE ReplaceAll(Replace(text, items[1][1], items[1][2]), Tail(items))

apply_glossary(text, glossary_) ==
  IF glossary_ = <<>> THEN text ELSE ReplaceAll(text, glossary_)

\* one line of the glossary block: the candidate it holds, if accepted
Arrow == <<"-", ">">>

\* the filter that compares source and target as they are written
Candidate_NoCaseFold(line, glossary_) ==
  LET a == Find(Arrow, line, 1)
      src == Strip(SubSeq(line, 1, a - 1))
      dst == Strip(SubSeq(line, a + 2, Len(line)))
  IN IF a = 0 THEN <<>>
     ELSE IF src = <<>> \/ dst = <<>> \/ src = dst THEN <<>>
     ELSE IF glossary_ # <<>> /\ HasKey(glossary_, src) THEN <<>>
     ELSE IF Len(src) <= 1 THEN <<>>
     ELSE IF ~(IsUpperChar(src[1]) \/ ~IsAscii(src)) THEN <<>>
     ELSE <<<<src, dst>>>>

Candidate(line, glossary_) ==
  LET a == Find(Arrow, line, 1)
      src == Strip(SubSeq(line, 1, a - 1))
      dst == Strip(SubSeq(line, a + 2, Len(line)))
  IN IF a = 0 THEN <<>>
     ELSE IF src = <<>> \/ dst = <<>> \/ Lower(src) = Lower(dst) THEN <<>>
     ELSE IF glossary_ # <<>> /\ HasKey(glossary_, src) THEN <<>>
     ELSE IF Len(src) <= 1 THEN <<>>
     ELSE IF ~(IsUpperChar(src[1]) \/ ~IsAscii(src)) THEN <<>>
     ELSE <<<<src, dst>>>>

RECURSIVE ParseLines(_, _, _)
ParseLines(lines, glossary_, updates) ==
  IF lines = <<>> THEN updates
  ELSE ParseLines(Tail(lines), glossary_,
                  Update(updates, Candidate(lines[1], glossary_)))

\* parse_translation_and_glossary: <<translation, updates>>
\* the parser that returns the whole response as the translation
parse_translation_and_glossary_Whole(text, glossary_, start_mark, end_mark) ==
  <<Strip(text), <<>>>>

parse_translation_and_glossary(text, glossary_, start_mark, end_mark) ==
  LET translation == prune_marked(text, start_mark, end_mark)
      glossary_block == Between(text, GLOSSARY_START, GLOSSARY_END)
      updates == IF glossary_block.found
                 THEN ParseLines(SplitLines(glossary_block.body), glossary_, <<>>)
                 ELSE <<>>
  IN <<translation, updates>>

\* re.sub(r"^\[\d+\]\s*", "", out).strip()
RECURSIVE SkipDigits(_, _)
SkipDigits(s, i) ==
  IF i <= Len(s) /\ IsDigit(s[i]) THEN SkipDigits(s, i + 1) ELSE i

StripTag(out) ==
  LET e == SkipDigits(out, 2)
  IN IF Len(out) >= 3 /\ out[1] = "[" /\ e > 2 /\ e <= Len(out) /\ out[e] = "]"
     THEN Strip(SubSeq(out, e + 1, Len(out)))
     ELSE Strip(out)

\* f"[{start + i}] {s}"
Tagged(i, s) == <<"[">> \o Digits(i) \o <<"]", " ">> \o s

\* "\n".join(f"{k} -> {v}" for k, v in glossary.items())
GlossaryLine(kv) == kv[1] \o <<" ", "-", ">", " ">> \o kv[2]

GlossaryStr(glossary_) ==
  Join(<<"\n">>, [i \in 1..Len(glossary_) |-> GlossaryLine(glossary_[i])])

\* ------------------------------------------------------------ the backend
\* What the model behind the backend answers.  Its answer depends on the
\* text it is sent and on how many answers it has sampled before (n); `st`
\* says whether it repeats the "[i] " tag and whether it follows the marker
\* protocol.
Sample(n) == IF n % 2 = 0 THEN "p" ELSE "q"

TrChar(c) == CASE c = "a" -> "x" [] c = "b" -> "y" [] OTHER -> c

Untagged(text) ==
  LET e == Find(<<"]", " ">>, text, 1)
  IN IF text # <<>> /\ text[1] = "[" /\ e > 0
     THEN SubSeq(text, e + 2, Len(text)) ELSE text

Rendition(text, n, st) ==
  LET shown == IF st.echo THEN text ELSE Untagged(text)
  IN [i \in 1..Len(shown) |-> TrChar(shown[i])] \o <<Sample(n)>>

\* the terms the model lists: a name taken from the text, rendered
\* differently from one sample to the next, and a common noun
Proposed(text, n) ==
  LET name == IF \E i \in 1..Len(text) : text[i] = "a"
              THEN <<"L", "a">> ELSE <<"L", "b">>
  IN name \o <<" ", "-", ">", " ", "v", Sample(n), "\n">>
     \o <<"l", "o", " ", "-", ">", " ", "w">>

\* POST /api/generate: the "response" field
Generate(prompt, n, st) ==
  IF st.marks
  THEN <<prompt.start, " ">> \o Rendition(prompt.text, n, st)
       \o <<" ", prompt.end, "\n", GLOSSARY_START, "\n">>
       \o Proposed(prompt.text, n) \o <<"\n", GLOSSARY_END>>
  ELSE <<" ">> \o Rendition(prompt.text, n, st) \o <<"\n">>

\* translator(sent)[0]["translation_text"] of the hosted pipeline
Translator(sent, n, st) == Rendition(sent, n, st)

\* ---------------------------------------------------------------- inputs
Texts == << <<"a", ".">>, <<"b", "!">> >>

Book(n) == [i \in 1..n |-> Texts[((i - 1) % 2) + 1]]

\* the end-to-end case of the windowing: 120 sentences, default window and
\* overlap
DefaultWindow == 50
DefaultOverlap == 10
LongBook == [i \in 1..120 |-> <<"a", ".">>]

Title == <<"T", "a">>

Styles(ollama) ==
  IF ollama
  THEN {[echo |-> TRUE, marks |-> TRUE], [echo |-> FALSE, marks |-> FALSE]}
  ELSE {[echo |-> TRUE, marks |-> FALSE]}

InitGlossaries ==
  { <<>>, << <<<<"L", "a">>, <<"K">>>>, <<<<"x">>, <<"Z">>>> >> }

\* translate_with_context has not returned; `cause` is the __cause__ of the
\* exception it raised
NoReturn ==
  [kind |-> "none", translations |-> <<>>, updates |-> <<>>, raws |-> <<>>,
   cause |-> "none"]

\* ----------------------------------------------------------------- state
VARIABLES
  sentences, window, overlap, use_ollama, style,   \* the run's inputs
  glossary, cancel_event, pause_event,             \* TranslatorUI fields
  pc, caller,                                      \* the worker's position
  batch, start_mark, end_mark, idx,                \* translate_sentences /
  outputs, raw_outputs, new_terms, glossary_str,   \*   translate_with_ollama
  start, translated, raw_map, all_updates,         \* translate_with_context
  processed, ctx_ret,
  title_translation, raw_title, error_dialog,      \* _translate_current_task
  translations, full_raw_translations,             \* TranslatorUI fields
  translated_titles,
  requests, windows, progress, tokens, slept,      \* what the run did
  base,                                            \* the lambda's base=start
  others,                                          \* threads started besides
  resp,                                            \* a response to be parsed
  path, chapters,                                  \* extract_chapters(path)
  chapter_text,                                    \* a chapter's cleaned text
  file_text, split_ret,                            \* _split_into_chapters
  raw_text, clean_ret,                             \* clean_text
  titles, chapter_var, start_var, end_var,         \* the book and its menus
  range_idx, started                               \* _translate_range_task

inputs == <<sentences, window, overlap, use_ollama, style>>
flags == <<cancel_event, pause_event>>
frame == <<batch, start_mark, end_mark, idx, outputs, raw_outputs, new_terms,
           glossary_str, base>>
ctx == <<start, translated, raw_map, all_updates, processed, ctx_ret>>
task == <<title_translation, raw_title, error_dialog, translations,
          full_raw_translations, translated_titles>>
logs == <<requests, windows, progress, tokens>>
book == <<path, chapters, chapter_text, file_text, split_ret, raw_text,
          clean_ret, titles, chapter_var, start_var, end_var, range_idx,
          started>>
vars == <<inputs, glossary, flags, pc, caller, frame, ctx, task, logs, slept,
          others, resp, book>>

total == Len(sentences)

\* the step taken as the window size, the overlap forgotten
step_NoOverlap == window

\* a step one beyond the window
step_Beyond == window + 1

\* the step without its floor of 1
step_NoFloor == window - overlap

\* step = max(1, window - overlap)
step == IF window - overlap > 1 THEN window - overlap ELSE 1

\* nothing has run yet
Fresh ==
  /\ cancel_event = FALSE
  /\ pause_event = FALSE
  /\ caller = "none"
  /\ batch = <<>>
  /\ start_mark = START_MARK
  /\ end_mark = END_MARK
  /\ idx = 0
  /\ outputs = <<>>
  /\ raw_outputs = <<>>
  /\ glossary_str = <<>>
  /\ base = 0
  /\ start = 0
  /\ translated = <<>>
  /\ raw_map = <<>>
  /\ all_updates = <<>>
  /\ processed = 0
  /\ ctx_ret = NoReturn
  /\ title_translation = <<>>
  /\ raw_title = <<>>
  /\ translations = <<>>
  /\ full_raw_translations = <<>>
  /\ translated_titles = <<>>
  /\ error_dialog = FALSE
  /\ requests = <<>>
  /\ windows = <<>>
  /\ progress = <<>>
  /\ tokens = <<>>
  /\ slept = FALSE
  /\ others = 0

\* no file has been opened
NoChapters == [kind |-> "none", format |-> "none", message |-> <<>>]

Unloaded ==
  /\ path = <<>>
  /\ chapters = NoChapters
  /\ chapter_text = <<>>
  /\ file_text = <<>>
  /\ split_ret = <<>>
  /\ raw_text = <<>>
  /\ clean_ret = <<>>
  /\ titles = <<>>
  /\ chapter_var = <<>>
  /\ start_var = <<" ">>
  /\ end_var = <<" ">>
  /\ range_idx = 0
  /\ started = <<>>

Init ==
  /\ \/ /\ sentences \in {Book(n) : n \in 0..MaxN}
        /\ window \in 1..MaxWindow
        /\ overlap \in 0..MaxOverlap
        /\ use_ollama \in BOOLEAN
        /\ style \in Styles(use_ollama)
        /\ glossary \in InitGlossaries
     \/ /\ sentences = LongBook
        /\ window = DefaultWindow
        /\ overlap = DefaultOverlap
        /\ use_ollama = FALSE
        /\ style = [echo |-> TRUE, marks |-> FALSE]
        /\ glossary = <<>>
  /\ pc = "idle"
  /\ new_terms = <<>>
  /\ resp = <<>>
  /\ Fresh
  /\ Unloaded

\* --------------------------------------------------------------- helpers
Min(a, b) == IF a < b THEN a ELSE b

\* the progress count without its cap
Processed_Uncapped(start_) == start_ + step

\* processed = min(total, start + step)
Processed(start_) == Min(total, start_ + step)

\* a dict store in place of setdefault: the last writer wins
SetDefault_Overwrite(m, k, v) ==
  [x \in (DOMAIN m) \cup {k} |-> IF x = k THEN v ELSE m[x]]

\* dict.setdefault(k, v) on a dict keyed by sentence index
SetDefault(m, k, v) == IF k \in DOMAIN m THEN m ELSE m @@ (k :> v)

\* the merge without its membership test: self.glossary.update(upd)
MergeAbsent_Overwrite(g, upd) == Update(g, upd)

\* the merge that appends every update, present or not
MergeAbsent_Appends(g, upd) == g \o upd

\* for k, v in upd.items(): if k not in self.glossary: self.glossary[k] = v
RECURSIVE MergeAbsent(_, _)
MergeAbsent(g, upd) ==
  IF upd = <<>> THEN g
  ELSE MergeAbsent(IF HasKey(g, upd[1][1]) THEN g ELSE Append(g, upd[1]),
                   Tail(upd))

\* the setdefault loop of translate_with_context over zip(outs, raws)
RECURSIVE CollectOuts(_, _, _, _, _)
CollectOuts(m, outs, start_, i, glossary_) ==
  IF i > Len(outs) THEN m
  ELSE CollectOuts(
         SetDefault(m, start_ + i - 1, apply_glossary(StripTag(outs[i]), glossary_)),
         outs, start_, i + 1, glossary_)

RECURSIVE CollectRaws(_, _, _, _)
CollectRaws(m, raws, start_, i) ==
  IF i > Len(raws) THEN m
  ELSE CollectRaws(SetDefault(m, start_ + i - 1, raws[i]), raws, start_, i + 1)

\* the window tagged with the index local to the window
WindowSents_LocalTags(sents, start_, window_) ==
  [i \in 1..Min(window_, Len(sents) - start_)
     |-> Tagged(i - 1, sents[start_ + i])]

\* [f"[{start + i}] {s}" for i, s in enumerate(sentences[start : start + window])]
WindowSents(sents, start_, window_) ==
  [i \in 1..Min(window_, Len(sents) - start_)
     |-> Tagged(start_ + i - 1, sents[start_ + i])]

\* entering translate_sentences: the locals of the batch loop
CallBatch(sents, sm, em, who) ==
  /\ batch' = sents
  /\ start_mark' = sm
  /\ end_mark' = em
  /\ idx' = 0
  /\ outputs' = <<>>
  /\ raw_outputs' = <<>>
  /\ new_terms' = <<>>
  /\ glossary_str' = IF use_ollama THEN GlossaryStr(glossary) ELSE <<>>
  /\ base' = start
  /\ caller' = who
  /\ pc' = "b_cancel"

\* ----------------------------------------------------- the user's actions
\* TranslatorUI.translate_current
translate_current ==
  /\ pc = "idle"
  /\ cancel_event' = FALSE
  /\ pause_event' = FALSE
  /\ pc' = "t_call"
  /\ UNCHANGED <<inputs, others, resp, book, glossary, caller, frame, ctx, task, logs,
                 slept>>

\* TranslatorUI.cancel_translation
cancel_translation ==
  /\ ~cancel_event
  /\ cancel_event' = TRUE
  /\ UNCHANGED <<inputs, others, resp, book, glossary, pause_event, pc, caller, frame,
                 ctx, task, logs, slept>>

\* TranslatorUI.toggle_pause
toggle_pause ==
  /\ pc \notin {"idle", "done"} \/ others > 0
  /\ pause_event' = ~pause_event
  /\ UNCHANGED <<inputs, others, resp, book, glossary, cancel_event, pc, caller,
                 frame, ctx, task, logs, slept>>

\* ------------------------------------- _translate_current_task: the title
TitleCall ==
  /\ pc = "t_call"
  /\ translations' = <<>>
  /\ full_raw_translations' = <<>>
  /\ title_translation' = Title
  /\ raw_title' = Title
  /\ CallBatch(<<Title>>, TITLE_START, TITLE_END, "title")
  /\ UNCHANGED <<inputs, others, resp, book, glossary, flags, ctx, error_dialog,
                 translated_titles, logs, slept>>

TitleMerge ==
  /\ pc = "t_merge"
  /\ IF outputs = <<>>
     THEN UNCHANGED <<title_translation, raw_title, glossary>>
     ELSE /\ title_translation' = outputs[1]
          /\ raw_title' = raw_outputs[1]
          /\ glossary' = MergeAbsent(glossary, new_terms)
  /\ translated_titles' = <<title_translation'>>
  /\ pc' = "c_enter"
  /\ UNCHANGED <<inputs, others, resp, book, flags, caller, frame, ctx, translations,
                 full_raw_translations, error_dialog, logs, slept>>

\* -------------------- translate_sentences / translate_with_ollama: the loop
\* the loop without its cancel check
BatchNext_NoCancel ==
  /\ pc = "b_cancel"
  /\ IF idx >= Len(batch)
     THEN pc' = IF caller = "title" THEN "t_merge" ELSE "c_collect"
     ELSE pc' = "b_pause"
  /\ UNCHANGED <<inputs, others, resp, book, glossary, flags, caller, frame, ctx,
                 task, logs, slept>>

\* top of the for loop: end of the batch, or the cancel check
BatchNext ==
  /\ pc = "b_cancel"
  /\ IF idx >= Len(batch) \/ cancel_event
     THEN pc' = IF caller = "title" THEN "t_merge" ELSE "c_collect"
     ELSE pc' = "b_pause"
  /\ UNCHANGED <<inputs, others, resp, book, glossary, flags, caller, frame, ctx,
                 task, logs, slept>>

\* a pause that gives up the sentence it was holding back
BatchPause_SkipsSentence ==
  /\ pc \in {"b_pause", "b_sleep"}
  /\ IF pause_event /\ ~cancel_event
     THEN /\ slept' = TRUE
          /\ idx' = idx + 1
          /\ pc' = "b_cancel"
     ELSE /\ pc' = "b_request"
          /\ UNCHANGED <<slept, idx>>
  /\ UNCHANGED <<inputs, others, resp, book, glossary, flags, caller, batch,
                 start_mark, end_mark, outputs, raw_outputs, new_terms,
                 glossary_str, base, ctx, task, logs>>

\* one turn of the pause loop: the flags are tested and, the pause flag set
\* and the cancel flag not, the worker sleeps ("b_sleep") before the next turn
BatchPause ==
  /\ pc \in {"b_pause", "b_sleep"}
  /\ IF pause_event /\ ~cancel_event
     THEN /\ slept' = TRUE
          /\ pc' = "b_sleep"
     ELSE /\ pc' = "b_request"
          /\ UNCHANGED slept
  /\ UNCHANGED <<inputs, others, resp, book, glossary, flags, caller, frame, ctx,
                 task, logs>>

\* token_callback is not None, and with it stream: only the chapter call on
\* the ollama backend is given one
HasTokenCallback(who) == use_ollama /\ who = "ctx"

\* the lines resp.iter_lines() gives for a streamed answer: the answer comes
\* in two pieces, with a keep-alive blank line and a part with an empty
\* "response" between them; the second piece is marked done, and one more
\* part follows it on the wire
Parts(answer) ==
  LET h == Len(answer) \div 2
  IN << [blank |-> FALSE, response |-> SubSeq(answer, 1, h), done |-> FALSE],
        [blank |-> TRUE, response |-> <<>>, done |-> FALSE],
        [blank |-> FALSE, response |-> <<>>, done |-> FALSE],
        [blank |-> FALSE, response |-> SubSeq(answer, h + 1, Len(answer)),
         done |-> TRUE],
        [blank |-> FALSE, response |-> <<"z">>, done |-> FALSE] >>

Stops_Never(part) == FALSE

\* if part.get("done"): break
Stops(part) == part.done

\* the callback that passes on the index local to the window
Forward_Local(base_, idx_) == idx_

\* lambda idx, text, base=start: token_callback(base + idx, text)
Forward(base_, idx_) == base_ + idx_

\* the streaming loop: blank lines are skipped, raw += delta with one call
\* per non-empty delta carrying what prune_marked extracts from the text
\* received so far, and the loop ends with the part marked done; the result
\* is the text read and the calls made
RECURSIVE ReadStream(_, _, _, _, _, _)
ReadStream(parts, raw, base_, idx_, sm, em) ==
  IF parts = <<>> THEN [raw |-> raw, calls |-> <<>>]
  ELSE LET part == Head(parts)
       IN IF part.blank
          THEN ReadStream(Tail(parts), raw, base_, idx_, sm, em)
          ELSE LET grown == raw \o part.response
                   call == IF part.response = <<>> THEN <<>>
                           ELSE <<[index |-> Forward(base_, idx_),
                                   text |-> prune_marked(grown, sm, em)]>>
                   rest == IF Stops(part)
                           THEN [raw |-> grown, calls |-> <<>>]
                           ELSE ReadStream(Tail(parts), grown, base_, idx_,
                                           sm, em)
               IN [raw |-> rest.raw, calls |-> call \o rest.calls]

\* the prompt built for batch[idx]
Prompt ==
  [glossary |-> glossary_str, start |-> start_mark, end |-> end_mark,
   text |-> batch[idx + 1]]

\* what the backend answers to the request made now
Raw ==
  IF use_ollama THEN Generate(Prompt, Len(requests), style)
  ELSE Translator(batch[idx + 1], Len(requests), style)

\* the entry the request leaves in the log
Logged(raw, ok) ==
  [caller |-> caller, start |-> start, idx |-> idx, text |-> batch[idx + 1],
   glossary |-> glossary_str, raw |-> raw, ok |-> ok]

\* the response text the request ends with: read off the stream when there
\* is a token callback (stream=token_callback is not None), else the
\* "response" field of the one JSON answer
Received(answer) ==
  IF HasTokenCallback(caller)
  THEN ReadStream(Parts(answer), <<>>, base, idx, start_mark, end_mark).raw
  ELSE answer

\* the calls of the token callback while the answer is read
Streamed(answer) ==
  IF HasTokenCallback(caller)
  THEN ReadStream(Parts(answer), <<>>, base, idx, start_mark, end_mark).calls
  ELSE <<>>

\* the batch loop that puts each new result in front of the earlier ones
BatchRequest_NewestFirst ==
  /\ pc = "b_request"
  /\ LET raw == Received(Raw)
         parsed == parse_translation_and_glossary(raw, glossary, start_mark,
                                                  end_mark)
         cleaned == IF use_ollama THEN parsed[1] ELSE raw
         updates == IF use_ollama THEN parsed[2] ELSE <<>>
     IN /\ outputs' = <<cleaned>> \o outputs
        /\ raw_outputs' = <<raw>> \o raw_outputs
        /\ new_terms' = Update(new_terms, updates)
        /\ requests' = Append(requests, Logged(raw, TRUE))
        /\ tokens' = tokens \o Streamed(Raw)
  /\ idx' = idx + 1
  /\ pc' = "b_cancel"
  /\ UNCHANGED <<inputs, others, resp, book, glossary, flags, caller, batch,
                 start_mark, end_mark, glossary_str, base, ctx, task, windows,
                 progress, slept>>

\* the request for batch[idx], the reading of its answer, its parsing and the
\* appends
BatchRequest ==
  /\ pc = "b_request"
  /\ LET raw == Received(Raw)
         parsed == parse_translation_and_glossary(raw, glossary, start_mark,
                                                  end_mark)
         cleaned == IF use_ollama THEN parsed[1] ELSE raw
         updates == IF use_ollama THEN parsed[2] ELSE <<>>
     IN /\ outputs' = Append(outputs, cleaned)
        /\ raw_outputs' = Append(raw_outputs, raw)
        /\ new_terms' = Update(new_terms, updates)
        /\ requests' = Append(requests, Logged(raw, TRUE))
        /\ tokens' = tokens \o Streamed(Raw)
  /\ idx' = idx + 1
  /\ pc' = "b_cancel"
  /\ UNCHANGED <<inputs, others, resp, book, glossary, flags, caller, batch,
                 start_mark, end_mark, glossary_str, base, ctx, task, windows,
                 progress, slept>>

\* a failed request that is passed over: the loop goes on to the next sentence
BatchRequestFails_GoesOn ==
  /\ pc = "b_request"
  /\ use_ollama
  /\ requests' = Append(requests, Logged(<<>>, FALSE))
  /\ idx' = idx + 1
  /\ pc' = "b_cancel"
  /\ UNCHANGED <<inputs, others, resp, book, glossary, flags, caller, batch,
                 start_mark, end_mark, outputs, raw_outputs, new_terms,
                 glossary_str, base, ctx, task, windows, progress, tokens,
                 slept>>

\* requests.RequestException, from the POST, from raise_for_status or while
\* the stream is read (some deltas may have been passed on by then):
\* RuntimeError, with the exception as its cause, out of translate_with_ollama
\* and, uncaught there, out of translate_with_context; the title's call is
\* inside try/except Exception: pass
BatchRequestFails ==
  /\ pc = "b_request"
  /\ use_ollama
  /\ requests' = Append(requests, Logged(<<>>, FALSE))
  /\ LET calls == Streamed(Raw)
     IN \E k \in 0..Len(calls) : tokens' = tokens \o SubSeq(calls, 1, k)
  /\ IF caller = "title"
     THEN /\ translated_titles' = <<title_translation>>
          /\ pc' = "c_enter"
          /\ UNCHANGED ctx_ret
     ELSE /\ ctx_ret' = [NoReturn EXCEPT !.kind = "RuntimeError",
                                         !.cause = "RequestException"]
          /\ pc' = "post"
          /\ UNCHANGED translated_titles
  /\ UNCHANGED <<inputs, others, resp, book, glossary, flags, caller, frame, start,
                 translated, raw_map, all_updates, processed, title_translation,
                 raw_title, error_dialog, translations, full_raw_translations,
                 windows, progress, slept>>

\* ------------------------------------------------- translate_with_context
CtxEnter ==
  /\ pc = "c_enter"
  /\ start' = 0
  /\ translated' = <<>>
  /\ raw_map' = <<>>
  /\ all_updates' = <<>>
  /\ processed' = 0
  /\ IF sentences = <<>>
     THEN /\ ctx_ret' = [NoReturn EXCEPT !.kind = "ok"]
          /\ pc' = "post"
     ELSE /\ UNCHANGED ctx_ret
          /\ pc' = "c_loop"
  /\ UNCHANGED <<inputs, others, resp, book, glossary, flags, caller, frame, task,
                 logs, slept>>

\* the window loop that takes the cancel request back once it has seen it
CtxLoop_ResetsCancel ==
  /\ pc = "c_loop"
  /\ IF start >= total \/ cancel_event
     THEN pc' = "c_return" /\ cancel_event' = FALSE
     ELSE pc' = "c_pause" /\ UNCHANGED cancel_event
  /\ UNCHANGED <<inputs, others, resp, book, glossary, pause_event, caller, frame,
                 ctx, task, logs, slept>>

\* top of the for loop over range(0, total, step): its end, or the cancel check
CtxLoop ==
  /\ pc = "c_loop"
  /\ IF start >= total \/ cancel_event
     THEN pc' = "c_return"
     ELSE pc' = "c_pause"
  /\ UNCHANGED <<inputs, others, resp, book, glossary, flags, caller, frame, ctx,
                 task, logs, slept>>

\* the window loop without its pause loop
CtxPause_NoBlock ==
  /\ pc \in {"c_pause", "c_sleep"}
  /\ pc' = "c_window"
  /\ UNCHANGED <<inputs, others, resp, book, glossary, flags, caller, frame, ctx,
                 task, logs, slept>>

\* one turn of the pause loop ("c_sleep": asleep inside the loop)
CtxPause ==
  /\ pc \in {"c_pause", "c_sleep"}
  /\ IF pause_event /\ ~cancel_event
     THEN /\ slept' = TRUE
          /\ pc' = "c_sleep"
     ELSE /\ pc' = "c_window"
          /\ UNCHANGED slept
  /\ UNCHANGED <<inputs, others, resp, book, glossary, flags, caller, frame, ctx,
                 task, logs>>

\* window_sents and the call of translate_sentences
CtxWindow ==
  /\ pc = "c_window"
  /\ LET window_sents == WindowSents(sentences, start, window)
     IN /\ CallBatch(window_sents, START_MARK, END_MARK, "ctx")
        /\ windows' = Append(windows,
                              [start |-> start, size |-> Len(window_sents)])
  /\ UNCHANGED <<inputs, others, resp, book, glossary, flags, ctx, task, requests,
                 progress, tokens, slept>>

\* the window's updates written into the caller's glossary as well
CtxCollect_MergesGlossary ==
  /\ pc = "c_collect"
  /\ translated' = CollectOuts(translated, outputs, start, 1, glossary)
  /\ raw_map' = CollectRaws(raw_map, raw_outputs, start, 1)
  /\ all_updates' = Update(all_updates, new_terms)
  /\ glossary' = Update(glossary, new_terms)
  /\ processed' = Processed(start)
  /\ progress' = Append(progress, <<processed', total>>)
  /\ start' = start + step
  /\ pc' = "c_loop"
  /\ UNCHANGED <<inputs, others, resp, book, flags, caller, frame, ctx_ret,
                 task, requests, windows, tokens, slept>>

\* after the window: the setdefault loop, the updates, the progress report
CtxCollect ==
  /\ pc = "c_collect"
  /\ translated' = CollectOuts(translated, outputs, start, 1, glossary)
  /\ raw_map' = CollectRaws(raw_map, raw_outputs, start, 1)
  /\ all_updates' = Update(all_updates, new_terms)
  /\ processed' = Processed(start)
  /\ progress' = Append(progress, <<processed', total>>)
  /\ start' = start + step
  /\ pc' = "c_loop"
  /\ UNCHANGED <<inputs, others, resp, book, glossary, flags, caller, frame, ctx_ret,
                 task, requests, windows, tokens, slept>>

\* the return statement: the lists built by index 0..N-1
CtxReturn ==
  /\ pc = "c_return"
  /\ IF \A i \in 0..(total - 1) : i \in DOMAIN translated /\ i \in DOMAIN raw_map
     THEN ctx_ret' = [kind |-> "ok",
                      translations |-> [i \in 1..total |-> translated[i - 1]],
                      updates |-> all_updates,
                      raws |-> [i \in 1..total |-> raw_map[i - 1]],
                      cause |-> "none"]
     ELSE ctx_ret' = [NoReturn EXCEPT !.kind = "KeyError"]
  /\ pc' = "post"
  /\ UNCHANGED <<inputs, others, resp, book, glossary, flags, caller, frame, start,
                 translated, raw_map, all_updates, processed, task, logs,
                 slept>>

\* ------------------- _translate_current_task: after translate_with_context
Post ==
  /\ pc = "post"
  /\ IF ctx_ret.kind # "ok"
     THEN /\ error_dialog' = TRUE
          /\ UNCHANGED <<glossary, pause_event, translations,
                         full_raw_translations>>
     ELSE IF cancel_event
     THEN /\ pause_event' = FALSE
          /\ UNCHANGED <<glossary, translations, full_raw_translations,
                         error_dialog>>
     ELSE /\ glossary' = MergeAbsent(glossary, ctx_ret.updates)
          /\ translations' =
               <<title_translation \o <<"\n", "\n">>
                 \o Join(<<".", " ">>, ctx_ret.translations)>>
          /\ full_raw_translations' =
               <<raw_title \o <<"\n", "\n">>
                 \o Join(<<".", " ">>, ctx_ret.raws)>>
          /\ pause_event' = FALSE
          /\ UNCHANGED error_dialog
  /\ pc' = "done"
  /\ UNCHANGED <<inputs, others, resp, book, cancel_event, caller, frame, ctx,
                 title_translation, raw_title, translated_titles, logs, slept>>

\* ------------------------------------------------- the glossary dialog
\* what the user types into the two entry fields
AddEntries == { <<<<"L", "b">>, <<"u">>>> }

\* TranslatorUI._reapply_glossary
Reapplied(texts, glossary_) ==
  [i \in 1..Len(texts) |-> apply_glossary(texts[i], glossary_)]

\* open_glossary.on_add: the entry is stored, overwriting, and the glossary
\* is applied again to what is displayed
on_add ==
  /\ \E e \in AddEntries :
       /\ glossary' = SetItem(glossary, e[1], e[2])
       /\ translations' =
            IF full_raw_translations = <<>> THEN translations
            ELSE Reapplied(
                   <<prune_marked(full_raw_translations[1], START_MARK, END_MARK)>>,
                   glossary')
       /\ translated_titles' = Reapplied(translated_titles, glossary')
  /\ UNCHANGED <<inputs, others, resp, book, flags, pc, caller, frame, ctx,
                 title_translation, raw_title, error_dialog,
                 full_raw_translations, logs, slept>>

Worker ==
  \/ TitleCall \/ TitleMerge
  \/ BatchNext \/ BatchPause \/ BatchRequest \/ BatchRequestFails
  \/ CtxEnter \/ CtxLoop \/ CtxPause \/ CtxWindow \/ CtxCollect \/ CtxReturn
  \/ Post

Next == translate_current \/ cancel_translation \/ toggle_pause \/ Worker

Spec == Init /\ [][Next]_vars

\* the positions of the worker thread
Positions ==
  {"idle", "t_call", "t_merge", "b_cancel", "b_pause", "b_sleep", "b_request",
   "c_enter", "c_loop", "c_pause", "c_sleep", "c_window", "c_collect",
   "c_return", "post", "done"}

\* the worker is in a pause loop whose test keeps it there
Polling ==
  /\ pc \in {"b_pause", "b_sleep", "c_pause", "c_sleep"}
  /\ pause_event
  /\ ~cancel_event

\* the worker thread takes its next step and leaves its position
WorkerMoves ==
  /\ pc \notin {"idle", "done"}
  /\ ~Polling
  /\ pc' \in Positions
  /\ pc' # pc

\* The worker thread keeps running: a request returns or fails within its
\* timeout, and a pause loop polls the flag every 0.1 s, so that a flag that
\* is clear again and again is seen clear.
SpecFair == Init /\ [][Next]_vars /\ SF_pc(WorkerMoves)

\* the same run with the glossary dialog open, on a backend that follows the
\* marker protocol (no other backend has terms to merge)
InitDialog == Init /\ total <= MaxN /\ use_ollama /\ style.marks

NextDialog == Next \/ on_add

SpecDialog == InitDialog /\ [][NextDialog]_vars

\* ------------------------------------------ the buttons, pressed again
\* The worker whose steps the model follows is the one the first press of
\* Translate Chapter starts.  `others` counts the worker threads started
\* besides it that have not ended; they run the same tasks, step by step
\* unfollowed.
WorkerAlive == pc \notin {"idle", "done"}

Live == (IF WorkerAlive THEN 1 ELSE 0) + others

\* TranslatorUI.translate_current pressed once more: translate_thread is not
\* looked at, both flags are cleared and one more thread is started
translate_current_again ==
  /\ pc # "idle"
  /\ others < MaxOthers
  /\ cancel_event' = FALSE
  /\ pause_event' = FALSE
  /\ others' = others + 1
  /\ UNCHANGED <<inputs, resp, book, glossary, pc, caller, frame, ctx, task, logs,
                 slept>>

\* TranslatorUI.translate_range: the same, the thread running
\* _translate_range_task
translate_range ==
  /\ others < MaxOthers
  /\ cancel_event' = FALSE
  /\ pause_event' = FALSE
  /\ others' = others + 1
  /\ UNCHANGED <<inputs, resp, book, glossary, pc, caller, frame, ctx, task, logs,
                 slept>>

\* the task of one of the other threads returns
OtherEnds ==
  /\ others > 0
  /\ others' = others - 1
  /\ UNCHANGED <<inputs, resp, book, glossary, flags, pc, caller, frame, ctx, task,
                 logs, slept>>

InitButtons == Init /\ total <= 2 /\ window = 1

NextButtons ==
  Next \/ translate_current_again \/ translate_range \/ OtherEnds

SpecButtons == InitButtons /\ [][NextButtons]_vars

\* ------------------------------------------- the merge loop on its own
\* the source terms and the targets a glossary or an update set is made of
TermKeys == {<<"L", "a">>, <<"L", "b">>, <<"x">>}
TermValues == {<<"K">>, <<"v", "p">>}

\* the dicts of at most n entries
Dicts(n) ==
  UNION {{d \in [1..m -> TermKeys \X TermValues] :
            \A i, j \in 1..m : d[i][1] = d[j][1] => i = j} : m \in 0..n}

\* no chapter is loaded
NoRun ==
  /\ sentences = <<>>
  /\ window = 1
  /\ overlap = 0
  /\ use_ollama = TRUE
  /\ style = [echo |-> TRUE, marks |-> TRUE]

InitMerge ==
  /\ NoRun
  /\ Fresh
  /\ Unloaded
  /\ pc = "m_draw"
  /\ glossary \in Dicts(MaxEntries)
  /\ new_terms \in Dicts(MaxEntries)
  /\ resp = <<>>

\* the loop of ui.py:862-865 (and 805-808) run over the updates, a first and
\* a second time
MergeUpdates ==
  /\ pc \in {"m_draw", "m_once"}
  /\ glossary' = MergeAbsent(glossary, new_terms)
  /\ pc' = IF pc = "m_draw" THEN "m_once" ELSE "m_twice"
  /\ UNCHANGED <<inputs, others, resp, book, flags, caller, frame, ctx, task, logs,
                 slept>>

NextMerge == MergeUpdates

SpecMerge == InitMerge /\ [][NextMerge]_vars

\* ---------------------------------------------- the parser on its own
\* lines a model may write between the glossary markers
CandidateLines ==
  { <<"L", "a", " ", "-", ">", " ", "v">>,
    <<"L", "a", "-", ">", "w">>,
    <<"L", "a", " ", "-", ">", " ", "L", "a">>,
    <<"L", "a", " ", "-", ">", " ", "l", "a">>,
    <<"l", "o", " ", "-", ">", " ", "w">>,
    <<"u82f1", "u82f1", " ", "-", ">", " ", "w">>,
    <<"l", "u82f1", "-", ">", "w">>,
    <<"u82f1", "-", ">", "w">>,
    <<"T", "-", ">", "w">>,
    <<" ", "-", ">", "w">>,
    <<"L", "b", "-", ">", " ">>,
    <<"L", "b", " ", "w">>,
    <<"L", "b", "-", ">", "v", "-", ">", "w">> }

Blocks(n) == UNION {[1..m -> CandidateLines] : m \in 0..n}

\* a raw response: the translation, then the glossary block, whose end
\* marker the model may leave out
Response(lines, closed) ==
  <<START_MARK, "x", END_MARK, "\n", GLOSSARY_START, "\n">>
  \o Join(<<"\n">>, lines)
  \o (IF closed THEN <<"\n", GLOSSARY_END>> ELSE <<"\n">>)

\* the ways the translation's markers and the glossary's markers may be
\* written, the well-formed one and the malformed ones
MarkedAs(shape, s, e, body, more) ==
  CASE shape = "pair" -> <<s, " ">> \o body \o <<" ", e>>
    [] shape = "none" -> <<" ">> \o body \o <<" ">>
    [] shape = "start" -> <<s>> \o body
    [] shape = "end" -> body \o <<e>>
    [] shape = "reversed" -> <<e>> \o body \o <<s>>
    [] shape = "end_first" -> <<e, s>> \o body \o <<e>>
    [] OTHER -> <<s>> \o body \o <<e, s>> \o more \o <<e>>

Shapes == {"pair", "none", "start", "end", "reversed", "end_first", "two"}

Malformed(tshape, gshape) ==
  MarkedAs(tshape, START_MARK, END_MARK, <<"x">>, <<"y">>)
  \o <<"\n">>
  \o MarkedAs(gshape, GLOSSARY_START, GLOSSARY_END,
              <<"\n", "L", "b", " ", "-", ">", " ", "v", "\n">>,
              <<"\n", "T", "a", "-", ">", "w", "\n">>)

InitParse ==
  /\ NoRun
  /\ Fresh
  /\ Unloaded
  /\ pc = "p_draw"
  /\ glossary \in InitGlossaries
  /\ new_terms = <<>>
  /\ resp \in {Response(ls, closed) : ls \in Blocks(MaxLines), closed \in BOOLEAN}
              \cup {Malformed(t, g) : t \in Shapes, g \in Shapes}

\* translator.py:266-271 for the response drawn, the three results empty
\* before
ParseResponse ==
  /\ pc = "p_draw"
  /\ LET parsed == parse_translation_and_glossary(resp, glossary, START_MARK,
                                                  END_MARK)
     IN /\ outputs' = Append(outputs, parsed[1])
        /\ raw_outputs' = Append(raw_outputs, resp)
        /\ new_terms' = Update(new_terms, parsed[2])
  /\ pc' = "p_done"
  /\ UNCHANGED <<inputs, others, resp, book, glossary, flags, caller, batch,
                 start_mark, end_mark, idx, glossary_str, base, ctx, task, logs,
                 slept>>

NextParse == ParseResponse

SpecParse == InitParse /\ [][NextParse]_vars

\* ------------------------------------------------------- split_sentences
\* the longest drawn chapter text
MaxText == 5

\* ch in ".!?"
IsBoundary(c) == c \in {".", "!", "?"}

InRun_Never(text, i) == FALSE

\* i + 1 < n and text[i + 1] in ".!?": the boundary run goes on
InRun(text, i) == i < Len(text) /\ IsBoundary(text[i + 1])

IsDecimalPoint_Never(text, i) == FALSE

\* ch == "." and i > 0 and text[i - 1].isdigit() and i + 1 < n
\* and text[i + 1].isdigit()
IsDecimalPoint(text, i) ==
  /\ text[i] = "."
  /\ i > 1
  /\ IsDigit(text[i - 1])
  /\ i < Len(text)
  /\ IsDigit(text[i + 1])

Flush_Always(buffer, found) == Append(found, Strip(buffer))

Flush_Drops(buffer, found) == found

\* if buffer.strip(): sentences.append(buffer.strip())
Flush(buffer, found) ==
  IF Strip(buffer) # <<>> THEN Append(found, Strip(buffer)) ELSE found

\* the while loop of split_sentences; i is the 1-based position of text[i - 1]
RECURSIVE SplitFrom(_, _, _, _)
SplitFrom(text, i, buffer, found) ==
  IF i > Len(text)
  THEN Flush(buffer, found)
  ELSE LET ch == text[i]
           grown == Append(buffer, ch)
       IN IF IsBoundary(ch)
          THEN IF InRun(text, i)
               THEN SplitFrom(text, i + 1, grown, found)
               ELSE IF IsDecimalPoint(text, i)
                    THEN SplitFrom(text, i + 1, grown, found)
                    ELSE SplitFrom(text, i + 1, <<>>,
                                   Append(found, Strip(grown)))
          ELSE SplitFrom(text, i + 1, grown, found)

split_sentences(text) == SplitFrom(text, 1, <<>>, <<>>)

\* the characters chapter texts are drawn from
SplitChars == {"a", " ", ".", "!", "3"}

Strings(chars, n) == UNION {[1..m -> chars] : m \in 0..n}

\* test_split_sentences_ellipsis, test_split_sentences_decimal
EllipsisText ==
  <<"I", " ", "t", "h", "i", "n", "k", " ", ".", ".", ".", " ",
    "m", "a", "y", "b", "e", ".", " ", "Y", "e", "s", "!">>

DecimalText ==
  <<"V", "a", "l", "u", "e", " ", "i", "s", " ", "3", ".", "1", "4", ".",
    " ", "N", "e", "x", "t", ".">>

QuestionText == <<"a", "?", "!", " ", "3", ".", "3", "?", " ", "\n">>

InitSplit ==
  /\ NoRun
  /\ Fresh
  /\ pc = "s_draw"
  /\ glossary = <<>>
  /\ new_terms = <<>>
  /\ resp = <<>>
  /\ path = <<>>
  /\ chapters = NoChapters
  /\ chapter_text \in Strings(SplitChars, MaxText)
                      \cup {EllipsisText, DecimalText, QuestionText}
  /\ file_text = <<>>
  /\ split_ret = <<>>
  /\ raw_text = <<>>
  /\ clean_ret = <<>>
  /\ titles = <<>>
  /\ chapter_var = <<>>
  /\ start_var = <<" ">>
  /\ end_var = <<" ">>
  /\ range_idx = 0
  /\ started = <<>>

\* sentences = split_sentences(cleaned)
SplitChapter ==
  /\ pc = "s_draw"
  /\ sentences' = split_sentences(chapter_text)
  /\ pc' = "s_done"
  /\ UNCHANGED <<window, overlap, use_ollama, style, others, resp, book,
                 glossary, flags, caller, frame, ctx, task, logs, slept>>

NextSplit == SplitChapter

SpecSplit == InitSplit /\ [][NextSplit]_vars

\* ------------------------------------------------------ extract_chapters
\* PurePath.suffix: the name is the final component, trailing separators
\* dropped; i = name.rfind('.'); name[i:] if 0 < i < len(name) - 1 else ''
Suffix(p) ==
  LET Top(S) == IF S = {} THEN 0 ELSE CHOOSE x \in S : \A y \in S : y <= x
      last == Top({i \in 1..Len(p) : p[i] # "/"})
      from == Top({i \in 1..last : p[i] = "/"})
      name == SubSeq(p, from + 1, last)
      i == Top({j \in 1..Len(name) : name[j] = "."})
  IN IF 1 < i /\ i < Len(name) THEN SubSeq(name, i, Len(name)) ELSE <<>>

\* the four suffixes extract_chapters dispatches on
Formats ==
  [epub |-> <<".", "e", "p", "u", "b">>,
   pdf |-> <<".", "p", "d", "f">>,
   txt |-> <<".", "t", "x", "t">>,
   docx |-> <<".", "d", "o", "c", "x">>]

\* what one of the four readers gives for a file that can or cannot be read
Extracted(format, p, readable) ==
  IF readable
  THEN [kind |-> "ok", format |-> format, message |-> <<>>]
  ELSE [kind |-> "OSError", format |-> format, message |-> p]

extract_chapters_TxtFallback(p, readable) ==
  LET ext == Lower(Suffix(p))
  IN CASE ext = Formats.epub -> Extracted("epub", p, readable)
       [] ext = Formats.pdf -> Extracted("pdf", p, readable)
       [] ext = Formats.docx -> Extracted("docx", p, readable)
       [] OTHER -> Extracted("txt", p, readable)

extract_chapters(p, readable) ==
  LET ext == Lower(Suffix(p))
  IN CASE ext = Formats.epub -> Extracted("epub", p, readable)
       [] ext = Formats.pdf -> Extracted("pdf", p, readable)
       [] ext = Formats.txt -> Extracted("txt", p, readable)
       [] ext = Formats.docx -> Extracted("docx", p, readable)
       [] OTHER -> [kind |-> "ValueError", format |-> "none",
                    message |-> <<"Unsupported format: ">> \o p]

\* the paths a file dialog or a caller can hand over: a directory, a stem,
\* an ending and an optional trailing separator
Paths ==
  LET Dirs == {<<>>, <<"d", "/">>, <<"d", ".", "t", "x", "t", "/">>}
      Stems == {<<>>, <<"b">>, <<"b", ".", "p", "d", "f">>}
      Endings ==
        {Formats.epub, Formats.pdf, Formats.txt, Formats.docx, <<>>,
         <<".", "T", "X", "T">>, <<".", "T", "x", "t">>,
         <<".", "P", "D", "F">>, <<".", "d", "o", "c">>, <<".", "t", "x">>,
         <<".", "t", "x", "t", "x">>, <<".", "m", "o", "b", "i">>,
         <<"t", "x", "t">>}
      Trails == {<<>>, <<"/">>}
  IN {d \o st \o e \o t :
        d \in Dirs, st \in Stems, e \in Endings, t \in Trails}

InitLoad ==
  /\ NoRun
  /\ Fresh
  /\ pc = "l_draw"
  /\ glossary = <<>>
  /\ new_terms = <<>>
  /\ resp = <<>>
  /\ path \in Paths
  /\ chapters = NoChapters
  /\ chapter_text = <<>>
  /\ file_text = <<>>
  /\ split_ret = <<>>
  /\ raw_text = <<>>
  /\ clean_ret = <<>>
  /\ titles = <<>>
  /\ chapter_var = <<>>
  /\ start_var = <<" ">>
  /\ end_var = <<" ">>
  /\ range_idx = 0
  /\ started = <<>>

\* self.chapters = extract_chapters(path)
LoadBook ==
  /\ pc = "l_draw"
  /\ \E readable \in BOOLEAN : chapters' = extract_chapters(path, readable)
  /\ pc' = "l_done"
  /\ UNCHANGED <<inputs, others, resp, path, chapter_text, file_text,
                 split_ret, raw_text, clean_ret, titles,
                 chapter_var, start_var, end_var, range_idx, started,
                 glossary, flags, caller, frame, ctx, task, logs, slept>>

NextLoad == LoadBook

SpecLoad == InitLoad /\ [][NextLoad]_vars

\* ------------------------------------------------- _translate_range_task
MaxChapters == 2

\* A book of up to MaxChapters chapters is open, its titles distinct (they
\* are the keys of a dict); both range menus offer every title; the chapter
\* shown is the first one.
InitRange ==
  /\ NoRun
  /\ Fresh
  /\ pc = "idle"
  /\ glossary = <<>>
  /\ new_terms = <<>>
  /\ resp = <<>>
  /\ path = <<>>
  /\ chapters = NoChapters
  /\ chapter_text = <<>>
  /\ file_text = <<>>
  /\ split_ret = <<>>
  /\ raw_text = <<>>
  /\ clean_ret = <<>>
  /\ \E n \in 0..MaxChapters : titles = [i \in 1..n |-> <<"T", i>>]
  /\ IF titles = <<>>
     THEN /\ chapter_var = <<>>
          /\ start_var = <<" ">>
          /\ end_var = <<" ">>
     ELSE /\ chapter_var = titles[1]
          /\ start_var \in {titles[i] : i \in 1..Len(titles)}
          /\ end_var \in {titles[i] : i \in 1..Len(titles)}
  /\ range_idx = 0
  /\ started = <<>>

\* TranslatorUI.translate_range: both flags are cleared and the thread that
\* runs _translate_range_task is started
translate_range_start ==
  /\ pc = "idle"
  /\ cancel_event' = FALSE
  /\ pause_event' = FALSE
  /\ pc' = "r_enter"
  /\ UNCHANGED <<inputs, others, resp, book, glossary, caller, frame, ctx,
                 task, logs, slept>>

\* titles.index of the two menus' values, swapped when start > end; the
\* task returns when the book is empty or a value is no title
RangeEnter ==
  /\ pc = "r_enter"
  /\ LET At(t) == {i \in 1..Len(titles) : titles[i] = t}
         First(S) == CHOOSE i \in S : \A j \in S : i <= j
     IN IF titles = <<>> \/ At(start_var) = {} \/ At(end_var) = {}
        THEN /\ pc' = "r_end"
             /\ UNCHANGED range_idx
        ELSE /\ range_idx' = Min(First(At(start_var)), First(At(end_var)))
             /\ pc' = "r_loop"
  /\ UNCHANGED <<inputs, others, resp, path, chapters, chapter_text, file_text,
                 split_ret, raw_text, clean_ret, titles,
                 chapter_var, start_var, end_var, started, glossary, flags,
                 caller, frame, ctx, task, logs, slept>>

\* top of `for idx in range(start, end + 1)`: the end of the range, the
\* cancel test, or _load_chapter(idx), which sets chapter_var
RangeLoop ==
  /\ pc = "r_loop"
  /\ LET At(t) == {i \in 1..Len(titles) : titles[i] = t}
         First(S) == CHOOSE i \in S : \A j \in S : i <= j
         end == IF First(At(start_var)) > First(At(end_var))
                THEN First(At(start_var)) ELSE First(At(end_var))
     IN IF range_idx > end \/ cancel_event
        THEN /\ pc' = "r_end"
             /\ UNCHANGED chapter_var
        ELSE /\ chapter_var' = titles[range_idx]
             /\ pc' = "r_task"
  /\ UNCHANGED <<inputs, others, resp, path, chapters, chapter_text, file_text,
                 split_ret, raw_text, clean_ret, titles,
                 start_var, end_var, range_idx, started, glossary, flags,
                 caller, frame, ctx, task, logs, slept>>

\* _translate_current_task begins: title = self.chapter_var.get(), the
\* chapter of that title is cleaned and split.  Chapters of an odd number
\* have one sentence, the others none.
RangeTask ==
  /\ pc = "r_task"
  /\ started' = Append(started, chapter_var)
  /\ sentences' = Book(chapter_var[2] % 2)
  /\ requests' = <<>>
  /\ windows' = <<>>
  /\ progress' = <<>>
  /\ tokens' = <<>>
  /\ pc' = "t_call"
  /\ UNCHANGED <<window, overlap, use_ollama, style, others, resp, path,
                 chapters, chapter_text, file_text,
                 split_ret, raw_text, clean_ret, titles, chapter_var, start_var,
                 end_var, range_idx, glossary, flags, caller, frame, ctx,
                 task, slept>>

\* _translate_current_task has returned: the next idx of the range
RangeNext ==
  /\ pc = "done"
  /\ range_idx' = range_idx + 1
  /\ pc' = "r_loop"
  /\ UNCHANGED <<inputs, others, resp, path, chapters, chapter_text, file_text,
                 split_ret, raw_text, clean_ret, titles,
                 chapter_var, start_var, end_var, started, glossary, flags,
                 caller, frame, ctx, task, logs, slept>>

\* TranslatorUI._on_chapter_select / choose_chapter.on_select: the user picks
\* a chapter on the main thread, _load_chapter(idx) sets chapter_var
choose_chapter ==
  /\ \E i \in 1..Len(titles) :
       /\ titles[i] # chapter_var
       /\ chapter_var' = titles[i]
  /\ UNCHANGED <<inputs, others, resp, path, chapters, chapter_text, file_text,
                 split_ret, raw_text, clean_ret, titles,
                 start_var, end_var, range_idx, started, glossary, flags, pc,
                 caller, frame, ctx, task, logs, slept>>

NextRange ==
  \/ translate_range_start \/ RangeEnter \/ RangeLoop \/ RangeTask
  \/ RangeNext \/ choose_chapter \/ cancel_translation \/ Worker

SpecRange == InitRange /\ [][NextRange]_vars

\* ------------------------------------------------ cleaner.py / epub_parser.py
MaxBookLines == 4
MaxRawLines == 3

\* the thresholds of the three patterns of clean_text
HexMin == 32
Base64Min == 40
SymbolMin == 6

\* \w on one character: a letter, a digit, the underscore, an ideograph or
\* a hangul syllable (each of these written "u" and its code point)
IsWordChar(c) ==
  \/ c \in {"a", "b", "c", "d", "e", "f", "g", "h", "i", "j", "k", "l", "m",
            "n", "o", "p", "q", "r", "s", "t", "u", "v", "w", "x", "y", "z",
            "A", "B", "C", "D", "E", "F", "G", "H", "I", "J", "K", "L", "M",
            "N", "O", "P", "Q", "R", "S", "T", "U", "V", "W", "X", "Y", "Z",
            "_"}
  \/ IsDigit(c)
  \/ c \in {"u82f1", "u7b2c", "u7ae0", "u8282", "u56de", "u5377", "ud654",
            "u5f00"}

\* a filter that removes no line
IsNoise_Never(line) == FALSE

\* len(re.findall(r"[\|/_\\~@#$%^&*]", line)) >= 6
IsNoise(line) ==
  Cardinality({i \in 1..Len(line) :
                 line[i] \in {"|", "/", "_", "\\", "~", "@", "#", "$", "%",
                              "^", "&", "*"}}) >= SymbolMin

\* clean_text(text, return_removed).  "FENCE" stands for three backquotes,
\* one token of the text.  Each re.sub takes the leftmost match from
\* position i on, appends it to removed, replaces it by the empty string
\* and goes on behind it.
clean_text(text_, return_removed) ==
  IF text_ = <<>>
  THEN IF return_removed THEN <<<<>>, <<>>>> ELSE <<>>
  ELSE
    LET IsHex(c) ==
          \/ IsDigit(c)
          \/ c \in {"a", "b", "c", "d", "e", "f", "A", "B", "C", "D", "E", "F"}
        IsBase64(c) ==
          \/ IsHex(c)
          \/ c \in {"g", "h", "i", "j", "k", "l", "m", "n", "o", "p", "q", "r",
                    "s", "t", "u", "v", "w", "x", "y", "z", "G", "H", "I", "J",
                    "K", "L", "M", "N", "O", "P", "Q", "R", "S", "T", "U", "V",
                    "W", "X", "Y", "Z", "+", "/"}
        InClass(kind, c) == IF kind = "hex" THEN IsHex(c) ELSE IsBase64(c)
        \* \b before position i of t
        WordAt(t, j) == j >= 1 /\ j <= Len(t) /\ IsWordChar(t[j])
        Boundary(t, i) == WordAt(t, i - 1) # WordAt(t, i)
        \* the length of the longest run of the class that begins at i
        Top(S) == CHOOSE x \in S : \A y \in S : y <= x
        Low(S) == CHOOSE x \in S : \A y \in S : x <= y
        Run(kind, t, i) ==
          LET stops == {j \in i..Len(t) : ~InClass(kind, t[j])}
          IN IF stops = {} THEN Len(t) - i + 1 ELSE Low(stops) - i
        \* the last position of the match that begins at s, 0 if none:
        \* FENCE.*?FENCE up to the nearest closing fence; \b[a-fA-F0-9]{32,}\b
        \* and \b[A-Za-z0-9+/]{40,}={0,2}\b the longest run, then the most
        \* "=", that end at a \b
        MatchEnd(kind, t, s) ==
          IF kind = "block"
          THEN IF t[s] # "FENCE" THEN 0 ELSE Find(<<"FENCE">>, t, s + 1)
          ELSE IF ~Boundary(t, s) THEN 0
          ELSE LET r == Run(kind, t, s)
                   Pads(n) ==
                     {e \in 0..(IF kind = "hex" THEN 0 ELSE 2) :
                        /\ \A j \in 1..e : s + n + j - 1 <= Len(t)
                                             /\ t[s + n + j - 1] = "="
                        /\ Boundary(t, s + n + e)}
                   ns == {n \in (IF kind = "hex" THEN HexMin ELSE Base64Min)..r :
                            Pads(n) # {}}
               IN IF ns = {} THEN 0
                  ELSE s + Top(ns) + Top(Pads(Top(ns))) - 1
        RECURSIVE Sub(_, _, _, _, _)
        Sub(kind, t, i, out, removed) ==
          LET starts == {s \in i..Len(t) : MatchEnd(kind, t, s) > 0}
          IN IF starts = {}
             THEN [text |-> out \o SubSeq(t, i, Len(t)), removed |-> removed]
             ELSE LET s == Low(starts)
                      e == MatchEnd(kind, t, s)
                  IN Sub(kind, t, e + 1, out \o SubSeq(t, i, s - 1),
                         Append(removed, SubSeq(t, s, e)))
        blocks == Sub("block", text_, 1, <<>>, <<>>)
        hashes == Sub("hex", blocks.text, 1, <<>>, blocks.removed)
        base64 == Sub("base64", hashes.text, 1, <<>>, hashes.removed)
        lines == SplitLines(base64.text)
        Kept(line) == ~IsNoise(line)
        result == Join(<<"\n">>, SelectSeq(lines, Kept))
    IN IF return_removed
       THEN <<result, base64.removed \o SelectSeq(lines, IsNoise)>>
       ELSE result

\* a pattern that matches no line
IsHeading_Never(stripped) == FALSE

\* pattern.match(stripped) for the three CHAPTER_PATTERNS joined by "|",
\* re.IGNORECASE
IsHeading(stripped) ==
  LET s == stripped
      Is(i, c) == i <= Len(s) /\ s[i] = c
      Spaces(i) == CHOOSE n \in 0..Len(s) :
                     /\ \A j \in i..(i + n - 1) : j <= Len(s) /\ IsSpace(s[j])
                     /\ ~(i + n <= Len(s) /\ IsSpace(s[i + n]))
      Digs(i) == CHOOSE n \in 0..Len(s) :
                   /\ \A j \in i..(i + n - 1) : j <= Len(s) /\ IsDigit(s[j])
                   /\ ~(i + n <= Len(s) /\ IsDigit(s[i + n]))
      \* \d+\s*(?:...) from position i
      Numbered(i, units) ==
        /\ Digs(i) >= 1
        /\ \E u \in units : Is(i + Digs(i) + Spaces(i + Digs(i)), u)
  IN \/ \E w \in {<<"c", "h", "a", "p", "t", "e", "r">>, <<"c", "h">>,
                  <<"p", "r", "o", "l", "o", "g", "u", "e">>,
                  <<"e", "p", "i", "l", "o", "g", "u", "e">>} :
          /\ Len(s) >= Len(w)
          /\ Lower(SubSeq(s, 1, Len(w))) = w
          /\ ~(Len(s) > Len(w) /\ IsWordChar(s[Len(w) + 1]))
     \/ Numbered(1, {"ud654", "u7ae0", "u8282", "u56de", "u5377"})
     \/ /\ Is(1, "u7b2c")
        /\ Numbered(2 + Spaces(2), {"u7ae0", "u8282", "u56de", "u5377"})

\* _split_into_chapters(text): a dict in insertion order
split_into_chapters(text_) ==
  LET lines == SplitLines(text_)
      Close(chapters_, title, buf) ==
        IF buf # <<>>
        THEN SetItem(chapters_, title, Strip(Join(<<"\n">>, buf)))
        ELSE chapters_
      RECURSIVE Walk(_, _, _, _)
      Walk(i, chapters_, title, buf) ==
        IF i > Len(lines) THEN Close(chapters_, title, buf)
        ELSE IF IsHeading(Strip(lines[i]))
             THEN Walk(i + 1, Close(chapters_, title, buf),
                       Strip(lines[i]), <<>>)
             ELSE Walk(i + 1, chapters_, title, Append(buf, lines[i]))
      found == Walk(1, <<>>, <<"C", "h", "a", "p", "t", "e", "r", " ", "1">>,
                    <<>>)
  IN IF found # <<>> THEN found ELSE << <<<<"T", "e", "x", "t">>, text_>> >>

\* Either the text of a file is about to be split into chapters, or the raw
\* text of a chapter is about to be cleaned.  A text is up to MaxBookLines
\* (MaxRawLines) lines joined by "\n".
InitText ==
  /\ NoRun
  /\ Fresh
  /\ glossary = <<>>
  /\ new_terms = <<>>
  /\ resp = <<>>
  /\ path = <<>>
  /\ chapters = NoChapters
  /\ chapter_text = <<>>
  /\ split_ret = <<>>
  /\ clean_ret = <<>>
  /\ titles = <<>>
  /\ chapter_var = <<>>
  /\ start_var = <<" ">>
  /\ end_var = <<" ">>
  /\ range_idx = 0
  /\ started = <<>>
  /\ LET Texts_(lines, n) ==
           {Join(<<"\n">>, ls) : ls \in UNION {[1..m -> lines] : m \in 0..n}}
         Times(n, c) == [i \in 1..n |-> c]
     IN \/ /\ pc = "x_book"
           /\ raw_text = <<>>
           /\ file_text \in Texts_(
                {<<"u7b2c", "1", "u7ae0", " ", "u5f00">>,
                 <<"u7b2c", "2", "u7ae0">>,
                 <<" ", "P", "r", "o", "l", "o", "g", "u", "e">>,
                 <<"3", " ", "u56de">>,
                 <<"c", "h", "a">>,
                 <<"a", "b">>,
                 <<>>}, MaxBookLines)
        \/ /\ pc = "x_chapter"
           /\ file_text = <<>>
           /\ raw_text \in Texts_(
                {<<"a", "b">>,
                 <<"|", "/", "_", "\\", "~", "@">>,
                 <<"#", "$", "a", "%", "^", "&">>,
                 Times(6, "@") \o Times(5, "#"),
                 <<"FENCE">>,
                 Times(HexMin, "f"),
                 <<"a">> \o Times(Base64Min - 2, "/") \o <<"a">>,
                 <<>>}, MaxRawLines)

\* _extract_txt: return _split_into_chapters(text)
SplitBook ==
  /\ pc = "x_book"
  /\ split_ret' = split_into_chapters(file_text)
  /\ pc' = "x_split"
  /\ UNCHANGED <<inputs, others, resp, path, chapters, chapter_text,
                 file_text, raw_text, clean_ret, titles, chapter_var,
                 start_var, end_var, range_idx, started, glossary, flags,
                 caller, frame, ctx, task, logs, slept>>

\* cleaned, removed = clean_text(raw, return_removed=True)
CleanChapter ==
  /\ pc = "x_chapter"
  /\ clean_ret' = clean_text(raw_text, TRUE)
  /\ pc' = "x_clean"
  /\ UNCHANGED <<inputs, others, resp, path, chapters, chapter_text,
                 file_text, split_ret, raw_text, titles, chapter_var,
                 start_var, end_var, range_idx, started, glossary, flags,
                 caller, frame, ctx, task, logs, slept>>

NextText == SplitBook \/ CleanChapter

SpecText == InitText /\ [][NextText]_vars

\* ------------------------------------------------ reading the request log
\* the requests of the translate_with_context call that were answered
IsCtxAnswer(r) == r.caller = "ctx" /\ r.ok

\* positions in the log of the answered requests for sentence index i
AnswersFor(i) ==
  {j \in 1..Len(requests) : IsCtxAnswer(requests[j])
                            /\ requests[j].start + requests[j].idx = i}

\* the earliest answered request for sentence index i
FirstAnswer(i) ==
  requests[CHOOSE j \in AnswersFor(i) : \A k \in AnswersFor(i) : j <= k]

\* the translation the batch loop extracts from a raw answer
Cleaned(raw) ==
  IF use_ollama THEN prune_marked(raw, START_MARK, END_MARK) ELSE raw

\* the run came back from translate_with_context
Returned == pc = "post"

Uncancelled == Returned /\ ~cancel_event /\ ctx_ret.kind # "RuntimeError"

\* C1: for a non-empty sentence list, window >= 1 and 0 <= overlap < window,
\* with the cancel flag never set and no failed backend call,
\* translate_with_context returns N translations and N raw responses, element
\* i being derived from the backend answer to sentence i sent as "[i] " +
\* sentence (tag stripped, glossary applied).
C1_AlignedOutput ==
  (Uncancelled /\ sentences # <<>> /\ overlap < window) =>
    /\ ctx_ret.kind = "ok"
    /\ Len(ctx_ret.translations) = total
    /\ Len(ctx_ret.raws) = total
    /\ \A i \in 0..(total - 1) :
         /\ AnswersFor(i) # {}
         /\ FirstAnswer(i).text = Tagged(i, sentences[i + 1])
         /\ ctx_ret.raws[i + 1] = FirstAnswer(i).raw
         /\ ctx_ret.translations[i + 1] =
              apply_glossary(StripTag(Cleaned(FirstAnswer(i).raw)), glossary)

C1_Witness ==
  /\ Uncancelled /\ ctx_ret.kind = "ok"
  /\ total >= 3 /\ overlap >= 1 /\ overlap < window
  /\ Len(windows) >= 2
  /\ glossary # <<>>

\* C2: whenever the cancel flag is set during a run of
\* translate_with_context, the call returns normally (no exception) with the
\* results completed so far.
C2_CancelReturnsNormally ==
  (Returned /\ cancel_event) => ctx_ret.kind # "KeyError"

\* C3: the translation and the raw response stored for a sentence index are
\* those of the earliest window that returned an output for it; what later
\* windows return for that index is discarded.
C3_FirstWindowWins ==
  (pc \in {"c_loop", "c_pause", "c_sleep", "c_window", "c_return"}) =>
    \A i \in DOMAIN translated :
      /\ i \in DOMAIN raw_map
      /\ AnswersFor(i) # {}
      /\ raw_map[i] = FirstAnswer(i).raw
      /\ translated[i] =
           apply_glossary(StripTag(Cleaned(FirstAnswer(i).raw)), glossary)

C3_Witness ==
  /\ pc = "c_return"
  /\ \E i \in DOMAIN translated :
       \E j \in AnswersFor(i) : requests[j].raw # FirstAnswer(i).raw

\* C4: a term accepted as a glossary update while window k is processed is
\* part of the glossary that every later window of the same run works with.
C4_LaterWindowsSeeUpdates ==
  (caller = "ctx" /\ pc \in {"b_cancel", "b_pause", "b_sleep", "b_request"}) =>
    Keys(all_updates) \subseteq Keys(glossary)

\* C5: when the cancel flag is set while the worker is blocked in a pause
\* loop, the function leaves the loop without going on to the request of
\* the current sentence.
C5_CancelInPauseSendsNothing ==
  [][(pc = "b_sleep" /\ cancel_event) => pc' # "b_request"]_vars

\* C6: when the cancel flag is set as sentence j of a batch is about to be
\* processed, the batch loop makes no request for sentence j or a later one
\* and returns the outputs of sentences 0..j-1 only, both lists of length j,
\* in input order.
BatchLeft == pc \in {"t_merge", "c_collect"}

C6_PrefixAtExit ==
  (BatchLeft /\ idx < Len(batch)) =>
    /\ Len(outputs) = idx
    /\ Len(raw_outputs) = idx
    /\ Len(requests) >= idx
    /\ \A j \in 1..idx :
         LET r == requests[Len(requests) - idx + j]
         IN /\ r.caller = caller /\ r.start = start /\ r.idx = j - 1
            /\ r.text = batch[j]
            /\ raw_outputs[j] = r.raw
            /\ outputs[j] = IF use_ollama
                            THEN prune_marked(r.raw, start_mark, end_mark)
                            ELSE r.raw
    /\ \A j \in 1..Len(requests) :
         (requests[j].caller = caller /\ requests[j].start = start)
           => requests[j].idx < idx

C6_CancelStopsBatch ==
  /\ []C6_PrefixAtExit
  /\ [][(pc = "b_cancel" /\ cancel_event /\ idx < Len(batch))
          => (pc' \notin {"b_pause", "b_sleep", "b_request"}
              /\ requests' = requests)]_vars

C6_Witness ==
  /\ pc = "c_collect" /\ cancel_event
  /\ idx >= 1 /\ idx < Len(batch)

\* the sentence indices an uninterrupted run sends, window after window
RECURSIVE SentOrder(_)
SentOrder(s) ==
  IF s >= total THEN <<>>
  ELSE [i \in 1..Min(window, total - s) |-> s + i - 1]
       \o SentOrder(s + (IF window - overlap >= 1 THEN window - overlap ELSE 1))

CtxAnswers == SelectSeq(requests, IsCtxAnswer)

\* C7: with the pause flag set and cleared during the run and the cancel
\* flag never set, translate_with_context sends the same requests and
\* returns the same result as the run that was never paused: every index
\* 0..N-1 once, none lost or duplicated.
C7_PauseLosesNothing ==
  (Uncancelled /\ slept /\ sentences # <<>>) =>
    /\ ctx_ret.kind = "ok"
    /\ DOMAIN translated = 0..(total - 1)
    /\ Len(ctx_ret.translations) = total
    /\ [j \in 1..Len(CtxAnswers) |-> CtxAnswers[j].start + CtxAnswers[j].idx]
         = SentOrder(0)
    /\ \A i \in 0..(total - 1) : ctx_ret.raws[i + 1] = FirstAnswer(i).raw

C7_Witness ==
  /\ Uncancelled /\ slept /\ ctx_ret.kind = "ok"
  /\ total >= 2 /\ Len(windows) >= 2

\* C8: while the pause flag is set and the cancel flag is not, the worker
\* stays in its pause loop, before the next sentence's request and before
\* the next window, and starts no request.
PauseLoop == {"b_pause", "b_sleep", "c_pause", "c_sleep"}

C8_PausedSendsNothing ==
  [][(pc \in PauseLoop /\ pause_event /\ ~cancel_event)
       => (pc' \in PauseLoop /\ requests' = requests /\ windows' = windows)]_vars

C8_Witness ==
  /\ pc \in {"b_sleep", "c_sleep"} /\ pause_event /\ ~cancel_event
  /\ requests # <<>>

\* C9: in an uncancelled run the windows start at 0, step, 2*step, ... for
\* every multiple below N, step = max(1, window - overlap), and the window
\* starting at s covers s .. min(s + window, N) - 1; 120 sentences with
\* window 50 and overlap 10 give the three windows 0..49, 40..89, 80..119,
\* which cover 0..119.
C9_WindowStarts ==
  (Uncancelled /\ ctx_ret.kind = "ok") =>
    LET st == IF window - overlap >= 1 THEN window - overlap ELSE 1
        count == (total + st - 1) \div st
    IN /\ Len(windows) = count
       /\ \A k \in 1..Len(windows) :
            /\ windows[k].start = (k - 1) * st
            /\ windows[k].size = Min(windows[k].start + window, total)
                                   - windows[k].start
       /\ (total = 120 /\ window = 50 /\ overlap = 10) =>
            /\ windows = <<[start |-> 0, size |-> 50], [start |-> 40, size |-> 50],
                           [start |-> 80, size |-> 40]>>
            /\ UNION {windows[k].start..(windows[k].start + windows[k].size - 1)
                        : k \in 1..Len(windows)} = 0..119

C9_Witness ==
  /\ Uncancelled /\ ctx_ret.kind = "ok"
  /\ total = 120 /\ window = 50 /\ overlap = 10
  /\ Len(windows) = 3

\* C10: merging the updates of a title translation or of a chapter
\* translation into the session glossary overwrites no entry: every key
\* present before the merge keeps its value, and every key added comes from
\* the updates.
C10_MergeKeepsEntries ==
  [][(pc \in {"t_merge", "post"} /\ pc' # pc) =>
       LET upd == IF pc = "t_merge" THEN new_terms ELSE ctx_ret.updates
       IN /\ \A k \in Keys(glossary) :
               HasKey(glossary', k) /\ Value(glossary', k) = Value(glossary, k)
          /\ \A k \in Keys(glossary') \ Keys(glossary) :
               HasKey(upd, k) /\ Value(glossary', k) = Value(upd, k)]_vars

\* the chapter's updates were merged while they held a key that the user had
\* entered, with another value, before a later window was sent
C10_Witness ==
  /\ pc = "done" /\ translations # <<>>
  /\ \E e \in AddEntries :
       /\ HasKey(ctx_ret.updates, e[1])
       /\ Value(ctx_ret.updates, e[1]) # e[2]
       /\ Value(glossary, e[1]) = e[2]
       /\ \E j \in 1..Len(requests) :
            /\ requests[j].caller = "ctx"
            /\ Find(GlossaryLine(e), requests[j].glossary, 1) > 0

\* -------------------------------------------------- reading the proposals
\* the terms translate_with_ollama accepts from one answered request
Accepted(r) ==
  IF use_ollama
  THEN parse_translation_and_glossary(r.raw, glossary, START_MARK, END_MARK)[2]
  ELSE <<>>

\* positions in the log of the chapter's answers that proposed the term k
ProposalsOf(k) ==
  {j \in 1..Len(requests) : IsCtxAnswer(requests[j])
                            /\ HasKey(Accepted(requests[j]), k)}

\* the target the term k was given when it was first accepted
FirstTarget(k) ==
  Value(Accepted(requests[CHOOSE j \in ProposalsOf(k) :
                            \A i \in ProposalsOf(k) : j <= i]), k)

\* C11: when one source term is accepted from two sentences or two windows
\* of a run with different targets, the running update set keeps the target
\* produced first: a key present in the set is never overwritten.
C11_FirstTargetKept ==
  (pc \in {"c_loop", "c_pause", "c_sleep", "c_window", "c_return"}) =>
    \A k \in Keys(all_updates) :
      ProposalsOf(k) # {} /\ Value(all_updates, k) = FirstTarget(k)

C13_Progress ==
  LET st == IF window - overlap >= 1 THEN window - overlap ELSE 1
  IN /\ Len(progress) <= Len(windows)
     /\ \A k \in 1..Len(progress) :
          /\ progress[k][2] = total /\ total > 0
          /\ progress[k][1] >= 0 /\ progress[k][1] <= progress[k][2]
          /\ progress[k][1] =
               (IF windows[k].start + st < total
                THEN windows[k].start + st ELSE total)
          /\ k > 1 => progress[k - 1][1] <= progress[k][1]
     /\ (Uncancelled /\ ctx_ret.kind = "ok" /\ sentences # <<>>) =>
          (progress # <<>> /\ progress[Len(progress)][1] = total)

\* an uncancelled run of several windows whose last window would step
\* beyond the end of the list
C13_Witness ==
  /\ Uncancelled /\ ctx_ret.kind = "ok"
  /\ Len(progress) >= 2
  /\ progress[1][1] < total
  /\ windows[Len(windows)].start + step > total

\* C14: when the request for sentence k of a batch fails at transport level,
\* translate_with_ollama raises an error that carries the cause, returns
\* none of the results of sentences 0..k-1, retries nothing and sends no
\* request for a later sentence; translate_with_context passes the error on
\* to its caller and processes no further window.
Failed == pc \in {"post", "done"} /\ ctx_ret.kind = "RuntimeError"

C14_Raised ==
  Failed =>
    /\ ctx_ret.cause = "RequestException"
    /\ ctx_ret.translations = <<>> /\ ctx_ret.raws = <<>>
    /\ ctx_ret.updates = <<>>
    /\ translations = <<>> /\ full_raw_translations = <<>>
    /\ requests # <<>> /\ windows # <<>>
    /\ LET r == requests[Len(requests)]
       IN /\ ~r.ok /\ r.caller = "ctx"
          /\ r.start = windows[Len(windows)].start
          /\ r.idx = Len(outputs)

C14_NothingRetried ==
  \A j \in 1..Len(requests) :
    ~requests[j].ok =>
      \A k \in (j + 1)..Len(requests) : requests[k].caller # requests[j].caller

C14_FailureAborts ==
  /\ [](C14_Raised /\ C14_NothingRetried)
  /\ [][(pc = "b_request" /\ requests' # requests
           /\ ~requests'[Len(requests')].ok) =>
          /\ outputs' = outputs /\ title_translation' = title_translation
          /\ caller = "title" => pc' = "c_enter"
          /\ caller = "ctx" => (pc' = "post" /\ ctx_ret'.kind = "RuntimeError")]_vars
  /\ [][Failed => (requests' = requests /\ windows' = windows)]_vars

\* the request for the second sentence of a later window failed: the first
\* sentence's result and the earlier windows' results were there, unreturned
C14_Witness ==
  /\ Failed /\ pc = "post"
  /\ start > 0 /\ idx >= 1
  /\ outputs # <<>> /\ translated # <<>>

\* C15: in a run with no cancellation and no failure the backend requests
\* are issued strictly one at a time, ordered by window start and then by
\* position inside the window, and the batch call returns exactly one
\* translation and one raw response per sentence of the batch, the j-th
\* output belonging to the j-th sentence.
CtxRequests == SelectSeq(requests, LAMBDA r : r.caller = "ctx")

NoCancelNoFailure ==
  ~cancel_event /\ \A j \in 1..Len(requests) : requests[j].ok

C15_InOrder ==
  NoCancelNoFailure =>
    \A j \in 1..Len(CtxRequests) :
      LET r == CtxRequests[j]
      IN IF j = 1 THEN r.start = 0 /\ r.idx = 0
         ELSE LET q == CtxRequests[j - 1]
              IN \/ r.start = q.start /\ r.idx = q.idx + 1
                 \/ r.start > q.start /\ r.idx = 0

C15_OnePerSentence ==
  (BatchLeft /\ NoCancelNoFailure) =>
    /\ idx = Len(batch)
    /\ Len(outputs) = Len(batch)
    /\ Len(raw_outputs) = Len(batch)
    /\ Len(requests) >= Len(batch)
    /\ \A j \in 1..Len(batch) :
         LET r == requests[Len(requests) - Len(batch) + j]
         IN /\ r.caller = caller /\ r.idx = j - 1 /\ r.text = batch[j]
            /\ raw_outputs[j] = r.raw
            /\ outputs[j] = IF use_ollama
                            THEN prune_marked(r.raw, start_mark, end_mark)
                            ELSE r.raw

C15_Sequential ==
  /\ [](C15_InOrder /\ C15_OnePerSentence)
  /\ [][requests' # requests =>
          /\ pc = "b_request"
          /\ Len(requests') = Len(requests) + 1
          /\ SubSeq(requests', 1, Len(requests)) = requests]_vars

\* a window of two sentences, not the first window, came back complete
C15_Witness ==
  /\ pc = "c_collect" /\ NoCancelNoFailure
  /\ start > 0 /\ Len(batch) >= 2
  /\ raw_outputs[1] # raw_outputs[2]

\* C16: every call passed on to the caller's token callback while sentence
\* j of the window starting at s is processed carries the index s + j, an
\* index of the input list, also for the windows after the first.
C16_AbsoluteIndex ==
  /\ [](\A k \in 1..Len(tokens) : tokens[k].index \in 0..(total - 1))
  /\ [][tokens' # tokens =>
          /\ pc = "b_request" /\ caller = "ctx"
          /\ Len(tokens') > Len(tokens)
          /\ SubSeq(tokens', 1, Len(tokens)) = tokens
          /\ \A k \in (Len(tokens) + 1)..Len(tokens') :
               tokens'[k].index = start + idx]_vars

\* the second sentence of a later window has been streamed
C16_Witness ==
  /\ pc = "b_cancel" /\ caller = "ctx"
  /\ start > 0 /\ idx = 2
  /\ tokens # <<>> /\ tokens[Len(tokens)].index = start + 1
  /\ Len(windows) >= 2

\* C17: at most one translation operation runs at a time: whatever buttons
\* the user presses, there is never more than one live worker thread.
C17_OneWorker == Live <= 1

\* C18: while a run is in progress the shared glossary has no concurrent
\* writer: nothing but the worker's own merge of accepted updates adds,
\* changes or removes an entry.
C18_NoConcurrentWriter ==
  [][(WorkerAlive /\ glossary' # glossary) =>
       (pc \in {"t_merge", "post"} /\ pc' # pc)]_vars

\* C19: translate_with_ollama, translate_sentences and translate_with_context
\* only read the cancel and pause flags, they never set or clear one; the
\* caller clears both flags before it starts a new run.
PipelinePcs ==
  {"b_cancel", "b_pause", "b_sleep", "b_request",
   "c_enter", "c_loop", "c_pause", "c_sleep", "c_window", "c_collect",
   "c_return"}

C19_FlagsOnlyRead ==
  /\ [][(pc \in PipelinePcs
           /\ <<pc, frame, ctx, logs, slept>>' # <<pc, frame, ctx, logs, slept>>)
          => flags' = flags]_vars
  /\ [][(pc = "idle" /\ pc' # "idle") =>
          (~cancel_event' /\ ~pause_event')]_vars

\* the window loop was left on a cancel request, both flags still set
C19_Witness ==
  /\ pc = "c_return" /\ cancel_event /\ pause_event
  /\ requests # <<>> /\ start < total

\* ------------------------------------------------ reading a parsed block
\* the lines between the glossary markers of the response
BlockLines ==
  LET b == Between(resp, GLOSSARY_START, GLOSSARY_END)
  IN IF b.found THEN SplitLines(b.body) ELSE <<>>

\* the line splits at its first "->" into the trimmed pair (src, dst), and
\* the pair passes every rule
Qualifies(line, src, dst) ==
  \E a \in 1..Len(line) :
    /\ OccursAt(Arrow, line, a)
    /\ \A b \in 1..(a - 1) : ~OccursAt(Arrow, line, b)
    /\ src = Strip(SubSeq(line, 1, a - 1))
    /\ dst = Strip(SubSeq(line, a + 2, Len(line)))
    /\ src # <<>> /\ dst # <<>>
    /\ Lower(src) # Lower(dst)
    /\ ~HasKey(glossary, src)
    /\ Len(src) > 1
    /\ (~IsAscii(src) \/ IsUpperChar(src[1]))

\* every pair a line can be split into at one of its positions
SplitsOf(line) ==
  {<<Strip(SubSeq(line, 1, a - 1)), Strip(SubSeq(line, a + 2, Len(line)))>> :
     a \in 1..Len(line)}

\* every pair some line can be split into, and every pair stored
Pairs(lines) ==
  UNION {SplitsOf(lines[i]) : i \in 1..Len(lines)}
  \cup {new_terms[i] : i \in 1..Len(new_terms)}

\* the lines that qualify with the source term k
LinesFor(lines, k) ==
  {i \in 1..Len(lines) :
     \E p \in SplitsOf(lines[i]) : p[1] = k /\ Qualifies(lines[i], k, p[2])}

ExactlyWhen(lines) ==
  \A p \in Pairs(lines) :
    (HasKey(new_terms, p[1]) /\ Value(new_terms, p[1]) = p[2])
      <=> \E i \in 1..Len(lines) : Qualifies(lines[i], p[1], p[2])

LastQualifyingLine(lines) ==
  /\ \A i, j \in 1..Len(new_terms) : new_terms[i][1] = new_terms[j][1] => i = j
  /\ \A p \in Pairs(lines) :
       HasKey(new_terms, p[1]) <=> LinesFor(lines, p[1]) # {}
  /\ \A k \in Keys(new_terms) :
       LET for == LinesFor(lines, k)
           last == CHOOSE i \in for : \A j \in for : j <= i
       IN Qualifies(lines[last], k, Value(new_terms, k))

\* C20 (as stated): parse_translation_and_glossary puts src with target dst
\* into the updates exactly when some line of the glossary block splits at
\* its first "->" into trimmed (src, dst) with src and dst non-empty, src
\* different from dst whatever the case, src no key of the existing
\* glossary, src longer than one character, and src non-ASCII or starting
\* with an upper-case character.
C20_ExactlyWhen == pc = "p_done" => ExactlyWhen(BlockLines)

\* C20 (amended): src is a key of the updates exactly when some line of the
\* block qualifies with src, and its target is the dst of the last such
\* line; every other candidate is dropped.
C20_LastQualifyingLine == pc = "p_done" => LastQualifyingLine(BlockLines)

\* two lines of one block qualify with the same source and different targets
C20_Witness ==
  /\ pc = "p_done"
  /\ \E k \in Keys(new_terms) :
       \E i, j \in LinesFor(BlockLines, k) :
         /\ i < j
         /\ ~Qualifies(BlockLines[i], k, Value(new_terms, k))
         /\ Qualifies(BlockLines[j], k, Value(new_terms, k))

\* C21: parsing fails on no raw response: with a start marker followed by an
\* end marker the translation is the trimmed text between the first such
\* pair, otherwise (no marker, one marker only, markers in the wrong order)
\* it is the whole trimmed response; without a complete pair of glossary
\* markers the updates are empty.
MarkerPairs(s, e) ==
  {p \in (1..Len(resp)) \X (1..Len(resp)) :
     p[1] < p[2] /\ resp[p[1]] = s /\ resp[p[2]] = e}

C21_ParseIsTotal ==
  pc = "p_done" =>
    LET pairs == MarkerPairs(START_MARK, END_MARK)
    IN /\ Len(outputs) = 1
       /\ IF pairs = {} THEN outputs[1] = Strip(resp)
          ELSE \E p \in pairs :
                 /\ \A q \in pairs : p[1] <= q[1]
                 /\ \A q \in pairs : q[1] = p[1] => p[2] <= q[2]
                 /\ outputs[1] = Strip(SubSeq(resp, p[1] + 1, p[2] - 1))
       /\ MarkerPairs(GLOSSARY_START, GLOSSARY_END) = {} => new_terms = <<>>

\* both translation markers and both glossary markers are there, each pair
\* in the wrong order, and the whole response came back as the translation
C21_Witness ==
  /\ pc = "p_done"
  /\ MarkerPairs(START_MARK, END_MARK) = {}
  /\ MarkerPairs(END_MARK, START_MARK) # {}
  /\ MarkerPairs(GLOSSARY_START, GLOSSARY_END) = {}
  /\ MarkerPairs(GLOSSARY_END, GLOSSARY_START) # {}
  /\ outputs = <<Strip(resp)>> /\ new_terms = <<>>

\* ------------------------------------------------- split_sentences claims
\* a text without its whitespace
Squeeze(s) == SelectSeq(s, LAMBDA c : ~IsSpace(c))

\* the first k sentences, one after the other
RECURSIVE FlattenTo(_, _)
FlattenTo(found, k) ==
  IF k = 0 THEN <<>> ELSE FlattenTo(found, k - 1) \o found[k]

\* one of the sentences ends with the character at position i of the text
SentenceEndsAt(text, found, i) ==
  \E k \in 1..Len(found) :
    Squeeze(FlattenTo(found, k)) = Squeeze(SubSeq(text, 1, i))

FollowedByBoundary(text, i) ==
  i < Len(text) /\ text[i + 1] \in {".", "!", "?"}

BetweenDigits(text, i) ==
  /\ text[i] = "."
  /\ 1 < i /\ i < Len(text)
  /\ IsDigit(text[i - 1])
  /\ IsDigit(text[i + 1])

BoundaryRule(text, found) ==
  \A i \in 1..Len(text) :
    text[i] \in {".", "!", "?"} =>
      (SentenceEndsAt(text, found, i) <=>
         ~FollowedByBoundary(text, i) /\ ~BetweenDigits(text, i))

DigitBefore(text, i) == text[i] = "." /\ i > 1 /\ IsDigit(text[i - 1])

DigitAfter(text, i) == i < Len(text) /\ IsDigit(text[i + 1])

DecimalExample ==
  chapter_text = DecimalText =>
    sentences = <<SubSeq(DecimalText, 1, 14), SubSeq(DecimalText, 16, 20)>>

\* C23 as stated: a '.' preceded and followed by a digit never ends a
\* sentence, and a '.' preceded by a digit but not followed by one always
\* ends the sentence
C23_DigitDotEnds ==
  pc = "s_done" =>
    /\ \A i \in 1..Len(chapter_text) :
         DigitBefore(chapter_text, i) =>
           (SentenceEndsAt(chapter_text, sentences, i)
              <=> ~DigitAfter(chapter_text, i))
    /\ DecimalExample

\* C23: a '.' preceded and followed by a digit never ends a sentence; a '.'
\* preceded by a digit and followed neither by a digit nor by another
\* boundary character ends the sentence; "Value is 3.14. Next." gives
\* "Value is 3.14." and "Next."
C23_DecimalPointKept ==
  pc = "s_done" =>
    /\ \A i \in 1..Len(chapter_text) :
         DigitBefore(chapter_text, i) =>
           /\ DigitAfter(chapter_text, i) =>
                ~SentenceEndsAt(chapter_text, sentences, i)
           /\ (~DigitAfter(chapter_text, i)
                 /\ ~FollowedByBoundary(chapter_text, i)) =>
                SentenceEndsAt(chapter_text, sentences, i)
    /\ DecimalExample

C23_Witness ==
  /\ pc = "s_done"
  /\ \E i, j \in 1..Len(chapter_text) :
       /\ DigitBefore(chapter_text, i)
       /\ DigitAfter(chapter_text, i)
       /\ DigitBefore(chapter_text, j)
       /\ ~DigitAfter(chapter_text, j)
       /\ SentenceEndsAt(chapter_text, sentences, j)
       /\ ~SentenceEndsAt(chapter_text, sentences, i)

\* the text after the last boundary character that ended a sentence
Remainder(text, found) ==
  LET closers == {i \in 1..Len(text) :
                    text[i] \in {".", "!", "?"}
                      /\ SentenceEndsAt(text, found, i)}
      last == IF closers = {} THEN 0
              ELSE CHOOSE i \in closers : \A j \in closers : j <= i
  IN SubSeq(text, last + 1, Len(text))

\* C24: no returned sentence is empty or whitespace-only, a text of nothing
\* but whitespace gives the empty list, and non-blank text after the last
\* closed sentence is returned, stripped, as the final sentence
C24_NoBlankSentence ==
  pc = "s_done" =>
    /\ \A k \in 1..Len(sentences) : Strip(sentences[k]) # <<>>
    /\ (\A i \in 1..Len(chapter_text) : IsSpace(chapter_text[i])) =>
         sentences = <<>>
    /\ LET rest == Strip(Remainder(chapter_text, sentences))
       IN rest # <<>> =>
            /\ sentences # <<>>
            /\ sentences[Len(sentences)] = rest

C24_Witness ==
  /\ pc = "s_done"
  /\ Len(sentences) >= 2
  /\ \E i \in 1..Len(chapter_text) : IsSpace(chapter_text[i])
  /\ ~IsBoundary(chapter_text[Len(chapter_text)])
  /\ sentences[Len(sentences)] = Strip(Remainder(chapter_text, sentences))

\* ------------------------------------------------ extract_chapters claims
\* C25: a path whose extension, lower-cased, is none of .epub, .pdf, .txt,
\* .docx is rejected with a ValueError whose message ends with the path, and
\* no chapters are returned for it
C25_UnsupportedRejected ==
  pc = "l_done" =>
    (Lower(Suffix(path)) \notin {Formats[f] : f \in DOMAIN Formats} =>
       /\ chapters.kind = "ValueError"
       /\ chapters.format = "none"
       /\ Len(chapters.message) > Len(path)
       /\ SubSeq(chapters.message, Len(chapters.message) - Len(path) + 1,
                 Len(chapters.message)) = path)

C25_Witness ==
  /\ pc = "l_done"
  /\ chapters.kind = "ValueError"
  /\ Suffix(path) = <<".", "m", "o", "b", "i">>

\* ------------------------------------------------------ windows and runs
\* C26: progress is reported only for completed windows: once
\* progress_callback has been called with min(N, s + step) / N, every
\* sentence index below min(N, s + step) is a key of the result, also when
\* the cancel flag was set while the window was being translated
C26_ProgressCoversWritten ==
  \A k \in 1..Len(progress) :
    \A i \in 0..(progress[k][1] - 1) : i \in DOMAIN translated

\* C27: each request to the backend embeds the glossary as it is when the
\* request is built: an entry added between two requests of one batch is in
\* the prompt of the later request
C27_GlossaryAtRequestTime ==
  [][(use_ollama /\ Len(requests') > Len(requests)) =>
       requests'[Len(requests')].glossary = GlossaryStr(glossary)]_vars

\* the calls one streamed answer must give, and the text it must leave: one
\* call per non-empty delta up to the part marked done, each with the
\* sentence's index and the translation extracted from all deltas so far
ExpectedOfStream(parts, index, sm, em) ==
  LET deltas == [i \in 1..Len(parts) |->
                   IF parts[i].blank THEN <<>> ELSE parts[i].response]
      ends == {i \in 1..Len(parts) : ~parts[i].blank /\ parts[i].done}
      stop == IF ends = {} THEN Len(parts)
              ELSE CHOOSE i \in ends : \A j \in ends : i <= j
      read == {i \in 1..stop : deltas[i] # <<>>}
      Rank(i) == Cardinality({j \in read : j <= i})
  IN [raw |-> FlattenTo(deltas, stop),
      calls |-> [r \in 1..Cardinality(read) |->
                   LET i == CHOOSE i \in read : Rank(i) = r
                   IN [index |-> index,
                       text |-> prune_marked(FlattenTo(deltas, i), sm, em)]]]

\* C28: in streaming mode, after each non-empty delta of a sentence's
\* response the registered token callback is called once with the sentence's
\* index and the translation extracted from the concatenation of the deltas
\* received so far, and nothing is read after the part marked done (a request
\* that fails while it is read has made a prefix of these calls)
C28_OneCallPerDelta ==
  [][(pc = "b_request" /\ HasTokenCallback(caller)
        /\ Len(requests') > Len(requests)) =>
       LET expected == ExpectedOfStream(Parts(Raw), start + idx, start_mark,
                                        end_mark)
           made == SubSeq(tokens', Len(tokens) + 1, Len(tokens'))
           entry == requests'[Len(requests')]
       IN /\ SubSeq(tokens', 1, Len(tokens)) = tokens
          /\ Len(made) <= Len(expected.calls)
          /\ made = SubSeq(expected.calls, 1, Len(made))
          /\ entry.ok => /\ made = expected.calls
                         /\ entry.raw = expected.raw
                         /\ entry.raw = Raw]_vars

\* a streamed answer has been read in full: two calls for one sentence with
\* a longer extracted text in the second
C28_Witness ==
  /\ pc = "b_cancel" /\ caller = "ctx" /\ use_ollama
  /\ idx >= 1
  /\ requests # <<>> /\ requests[Len(requests)].ok
  /\ Len(tokens) >= 2
  /\ tokens[Len(tokens)].index = tokens[Len(tokens) - 1].index
  /\ Len(tokens[Len(tokens)].text) > Len(tokens[Len(tokens) - 1].text)

\* C29: when the user has cancelled a chapter translation whose requests
\* all returned, the task ends without an error dialog and with the pause
\* flag cleared (the pause button's label is reset in the same branch)
C29_CancelEndsQuietly ==
  [][(pc = "post" /\ pc' = "done" /\ cancel_event
        /\ ctx_ret.kind # "RuntimeError") =>
       (~error_dialog' /\ ~pause_event')]_vars

\* ceil(N / step), with the step computed from the window and the overlap
WindowBound ==
  LET st == IF window - overlap >= 1 THEN window - overlap ELSE 1
  IN (total + st - 1) \div st

C39_ContentKept ==
  pc = "s_done" =>
    /\ Squeeze(FlattenTo(sentences, Len(sentences))) = Squeeze(chapter_text)
    /\ \A k \in 1..(Len(sentences) - 1) :
         /\ sentences[k] # <<>>
         /\ sentences[k][Len(sentences[k])] \in {".", "!", "?"}

C39_Witness ==
  /\ pc = "s_done"
  /\ Len(sentences) >= 2
  /\ Len(chapter_text) > Len(Squeeze(chapter_text))
  /\ sentences[Len(sentences)][Len(sentences[Len(sentences)])]
       \notin {".", "!", "?"}

\* C33: in a run whose cancel flag, once set, stays set, the sentence
\* indices written to the result map (and to the map of raw responses) are
\* at every point a prefix 0..k-1 of the input indices
C33_WrittenIsPrefix ==
  /\ DOMAIN translated = 0..(Cardinality(DOMAIN translated) - 1)
  /\ DOMAIN raw_map = DOMAIN translated
  /\ Cardinality(DOMAIN translated) <= total

\* a run cancelled inside a later window, with part of the list written
C33_Witness ==
  /\ pc = "c_return" /\ cancel_event
  /\ Len(windows) >= 2
  /\ DOMAIN translated # {}
  /\ Cardinality(DOMAIN translated) < total

\* C34: translate_with_context, translate_sentences and
\* translate_with_ollama leave the glossary passed to them as it was: no
\* step they take changes a key or a value of it, whatever the backend
\* proposed; the updates are only handed back to the caller
C34_GlossaryArgumentKept ==
  /\ [][(pc \in PipelinePcs
           /\ <<pc, frame, ctx, logs, slept>>' # <<pc, frame, ctx, logs, slept>>)
          => glossary' = glossary]_vars
  /\ [][(pc = "c_return" /\ pc' = "post" /\ ctx_ret'.kind = "ok") =>
          ctx_ret'.updates = all_updates]_vars

\* the call has returned updates the glossary does not hold
C34_Witness ==
  /\ pc = "post" /\ ctx_ret.kind = "ok"
  /\ \E i \in 1..Len(ctx_ret.updates) :
       ~HasKey(glossary, ctx_ret.updates[i][1])

\* the sentence indices of the k-th window started
Covers(k) == windows[k].start..(windows[k].start + windows[k].size - 1)

\* C36: for window >= 1 and 0 <= overlap < window, every window sent to the
\* backend holds at least one sentence index that no earlier window covered
C36_EveryWindowAdds ==
  overlap < window =>
    \A k \in 1..Len(windows) :
      (\E r \in 1..Len(requests) :
         requests[r].caller = "ctx" /\ requests[r].start = windows[k].start)
      => \E i \in Covers(k) : \A j \in 1..(k - 1) : i \notin Covers(j)

\* C37: in streaming mode, for every sentence whose response had a non-empty
\* delta, the text of the last token-callback call for the sentence is the
\* cleaned translation translate_with_ollama returns for it
C37_LastCallIsResult ==
  [][(pc = "b_request" /\ HasTokenCallback(caller)
        /\ Len(outputs') > Len(outputs)) =>
       /\ Len(tokens') > Len(tokens)
       /\ tokens'[Len(tokens')].index = start + idx
       /\ tokens'[Len(tokens')].text = outputs'[Len(outputs')]]_vars

\* a streamed answer in the marker protocol has been returned: what the last
\* call showed is the text between the markers, not the whole response
C37_Witness ==
  /\ pc = "b_cancel" /\ caller = "ctx" /\ use_ollama /\ style.marks
  /\ idx = 2
  /\ tokens # <<>>
  /\ tokens[Len(tokens)].text = outputs[2]
  /\ outputs[2] # Strip(raw_outputs[2])

\* C35: a cancel request issued while a worker runs is never lost: whatever
\* buttons are pressed after it, the cancel flag stays set as long as that
\* worker is alive, and the worker, testing the flag at the top of its batch
\* loop or of its window loop, goes on to no further sentence or window
C35_CancelNeverLost ==
  /\ [][(WorkerAlive /\ cancel_event) => cancel_event']_vars
  /\ [][(cancel_event /\ pc = "b_cancel") => pc' \notin {"b_pause", "b_request"}]_vars
  /\ [][(cancel_event /\ pc = "c_loop") => pc' \notin {"c_pause", "c_window"}]_vars

\* ------------------------------------------------------- the chapter range
\* the position of a title in the book
TitleAt(t) == CHOOSE i \in 1..Len(titles) : titles[i] = t

\* the selected range, the lower position first
RangeLo == Min(TitleAt(start_var), TitleAt(end_var))

RangeHi ==
  IF TitleAt(start_var) > TitleAt(end_var)
  THEN TitleAt(start_var) ELSE TitleAt(end_var)

\* the chapters translated so far are the first ones of the range, in book
\* order
StartedInOrder ==
  \A k \in 1..Len(started) :
    /\ RangeLo + k - 1 <= RangeHi
    /\ started[k] = titles[RangeLo + k - 1]

\* a range task that was not cancelled has translated the whole range
WholeRange ==
  (pc = "r_end" /\ ~cancel_event /\ titles # <<>>) =>
    Len(started) = RangeHi - RangeLo + 1

\* the loop, finding the cancel flag set, starts no chapter
StopsOnCancel == (pc = "r_loop" /\ cancel_event) => pc' # "r_task"

\* C38: _translate_range_task translates the chapters from the selected
\* start to the selected end inclusive, in book order, the two swapped when
\* the start lies after the end, one chapter at a time, and once its loop
\* finds the cancel flag set it starts no further chapter.
C38_RangeInOrder ==
  /\ []StartedInOrder
  /\ []WholeRange
  /\ [][StopsOnCancel]_vars

\* ------------------------------------------------------ chapters of a text
\* the heading lines of the texts, stripped: "第1章 开", "第2章", "Prologue"
\* and "3 回"
HeadingLines ==
  {<<"u7b2c", "1", "u7ae0", " ", "u5f00">>, <<"u7b2c", "2", "u7ae0">>,
   <<"P", "r", "o", "l", "o", "g", "u", "e">>, <<"3", " ", "u56de">>}

\* the positions of the heading lines
HeadingsOf(lines) == {i \in 1..Len(lines) : Strip(lines[i]) \in HeadingLines}

\* k headings of distinct titles, each followed by a line that is no
\* heading, and no line before the first heading
WellFormedBook(lines) ==
  /\ 1 \in HeadingsOf(lines)
  /\ \A h \in HeadingsOf(lines) :
       /\ h + 1 <= Len(lines)
       /\ h + 1 \notin HeadingsOf(lines)
  /\ \A g, h \in HeadingsOf(lines) :
       Strip(lines[g]) = Strip(lines[h]) => g = h

\* the chapter of the j-th heading: its title is the stripped heading line,
\* its text the lines up to the next heading, joined and stripped
ChapterOf(lines, j) ==
  LET hs == HeadingsOf(lines)
      h == CHOOSE x \in hs : Cardinality({y \in hs : y < x}) = j - 1
      later == {y \in hs : y > h}
      next == IF later = {} THEN Len(lines) + 1
              ELSE CHOOSE y \in later : \A z \in later : y <= z
  IN <<Strip(lines[h]),
       Strip(Join(<<"\n">>, SubSeq(lines, h + 1, next - 1)))>>

\* two Chinese numbered headings, each followed by a body line
ChineseBook ==
  Join(<<"\n">>, <<<<"u7b2c", "1", "u7ae0", " ", "u5f00">>, <<"a", "b">>,
                   <<"u7b2c", "2", "u7ae0">>, <<"a", "b">>>>)

\* C31: _split_into_chapters starts a new chapter at every heading line,
\* titled with the stripped heading line and holding the lines up to the
\* next heading; for a text of k headings with distinct titles, each
\* followed by at least one non-heading line and with no line before the
\* first heading, it returns exactly k chapters in heading order (two for
\* the two Chinese numbered headings).
C31_ChapterPerHeading ==
  pc = "x_split" =>
    LET lines == SplitLines(file_text)
    IN /\ WellFormedBook(lines) =>
            /\ Len(split_ret) = Cardinality(HeadingsOf(lines))
            /\ \A j \in 1..Len(split_ret) : split_ret[j] = ChapterOf(lines, j)
       /\ file_text = ChineseBook => Len(split_ret) = 2

C31_Witness ==
  /\ pc = "x_split"
  /\ file_text = ChineseBook
  /\ WellFormedBook(SplitLines(file_text))
  /\ split_ret = << <<<<"u7b2c", "1", "u7ae0", " ", "u5f00">>, <<"a", "b">>>>,
                    <<<<"u7b2c", "2", "u7ae0">>, <<"a", "b">>>> >>

\* ------------------------------------------------------- the cleaned text
\* the line holds six or more of the characters | / _ \ ~ @ # $ % ^ & *
SixSymbols(line) ==
  Cardinality({i \in 1..Len(line) :
                 line[i] \in {"|", "/", "_", "\\", "~", "@", "#", "$", "%",
                              "^", "&", "*"}}) >= 6

FewSymbols(line) == ~SixSymbols(line)

\* the lines with six or more of the characters are gone, the others are
\* kept as they were and in their order, each removed line is in the
\* removed list, and a text of one such line and the empty text give ""
LineFilter ==
  LET lines == SplitLines(raw_text)
  IN /\ clean_ret[1] = Join(<<"\n">>, SelectSeq(lines, FewSymbols))
     /\ \A i \in 1..Len(lines) :
          SixSymbols(lines[i]) =>
            \E r \in 1..Len(clean_ret[2]) : clean_ret[2][r] = lines[i]
     /\ raw_text = <<>> => clean_ret[1] = <<>>
     /\ (Len(lines) = 1 /\ SixSymbols(lines[1])) => clean_ret[1] = <<>>

\* the text holds a run of n or more characters of the class
HasRun(text, class, n) ==
  \E i \in 1..(Len(text) - n + 1) : \A j \in i..(i + n - 1) : text[j] \in class

HexDigits ==
  {DigitChars[d] : d \in 1..10}
  \cup {"a", "b", "c", "d", "e", "f", "A", "B", "C", "D", "E", "F"}

Base64Digits ==
  HexDigits
  \cup {"g", "h", "i", "j", "k", "l", "m", "n", "o", "p", "q", "r", "s", "t",
        "u", "v", "w", "x", "y", "z", "G", "H", "I", "J", "K", "L", "M", "N",
        "O", "P", "Q", "R", "S", "T", "U", "V", "W", "X", "Y", "Z", "+", "/"}

\* no code fence, no run of 32 hex digits, no run of 40 base64 digits
PlainText(text) ==
  /\ \A i \in 1..Len(text) : text[i] # "FENCE"
  /\ ~HasRun(text, HexDigits, 32)
  /\ ~HasRun(text, Base64Digits, 40)

\* C32: clean_text removes every line that contains six or more characters
\* from the set | / _ \ ~ @ # $ % ^ & * and keeps every other line unchanged
\* and in its original order; with return_removed set, each removed line is
\* reported in the removed list; a text consisting only of such a line, and
\* the empty text, yield the empty string.
C32_LineFilter == pc = "x_clean" => LineFilter

\* C32, amended: the same for a text that holds no code fence, no run of 32
\* or more hex digits and no run of 40 or more base64 digits.
C32_LineFilterOfPlainText ==
  (pc = "x_clean" /\ PlainText(raw_text)) => LineFilter

C32_Witness ==
  /\ pc = "x_clean"
  /\ PlainText(raw_text)
  /\ \E i, j \in 1..Len(SplitLines(raw_text)) :
       /\ i < j
       /\ SixSymbols(SplitLines(raw_text)[i])
       /\ FewSymbols(SplitLines(raw_text)[j])
       /\ SplitLines(raw_text)[j] # <<>>
  /\ clean_ret[2] # <<>>
  /\ clean_ret[1] # <<>>

====
